---- MODULE Spec2Model ----
(***************************************************************************)
(* Processing and insight-generation pipeline of cortex-ai.                *)
(*                                                                         *)
(*   infra/lambda/upload/index.ts    (src/unnamed/part_001)  Upload        *)
(*   infra/lambda/process/index.ts                           Process*      *)
(*   infra/lambda/insights/index.ts                          Insights*,    *)
(*                                                           Api*          *)
(*                                                                         *)
(* Every handler is cut at its await points that touch shared state: the   *)
(* DynamoDB table, the event bus and the in-memory rate-limit map.  The S3 *)
(* object of a record is written once by the upload and never rewritten,   *)
(* so reading it is folded into the step that follows it.                  *)
(***************************************************************************)
EXTENDS Integers, Sequences, FiniteSets, TLC

\* ------------------------------------------------------------------------
\* Optional values (a missing attribute of a DynamoDB item, undefined)
\* ------------------------------------------------------------------------
None == <<>>

Some(v) == <<v>>

IsSome(o) == Len(o) = 1

Get(o) == o[1]

\* ------------------------------------------------------------------------
\* Payloads.  An item is a function from its keys to numbers (0 is falsy).
\* A payload is an array of items or a single object; an array is `items`
\* followed by `extra` further copies of its last item, which lets an array
\* of more than 1000 records be written down.
\* ------------------------------------------------------------------------
ItemAB(n, a) == ("name" :> n) @@ ("amount" :> a)

ItemValueOnly == ("value" :> 5)

\* {"id": 0, "value": 5}: the record with id 0
ItemZeroId == ("id" :> 0) @@ ("value" :> 5)

ItemFull == ("id" :> 7) @@ ("email" :> 1) @@ ("price" :> 3) @@ ("category" :> 2) @@ ("level" :> 1)

Arr(items, extra) == [isArray |-> TRUE, items |-> items, extra |-> extra]

Obj(item) == [isArray |-> FALSE, items |-> <<item>>, extra |-> 0]

\* data.length
ArrLen(data) == Len(data.items) + data.extra

\* item[f], undefined read as 0 (both are falsy)
Field(item, f) == IF f \in DOMAIN item THEN item[f] ELSE 0

Truthy(item, f) == Field(item, f) # 0

RECURSIVE SumField(_, _, _)
SumField(items, f, n) ==
    IF n = 0 THEN 0 ELSE SumField(items, f, n - 1) + Field(items[n], f)

\* ------------------------------------------------------------------------
\* JSON.stringify(data) and its byte length, for payloads of this shape
\* ------------------------------------------------------------------------
RECURSIVE Digits(_)
Digits(n) == IF n < 10 THEN 1 ELSE 1 + Digits(n \div 10)

RECURSIVE PairsSize(_, _)
PairsSize(item, keys) ==
    IF keys = {} THEN 0
    ELSE LET k == CHOOSE x \in keys : TRUE
         IN  Len(k) + 3 + Digits(item[k]) + PairsSize(item, keys \ {k})

\* {"k":v,...}: two braces, the pairs, a comma between pairs
ItemSize(item) ==
    LET n == Cardinality(DOMAIN item)
    IN  2 + PairsSize(item, DOMAIN item) + (IF n = 0 THEN 0 ELSE n - 1)

RECURSIVE ItemsSize(_, _)
ItemsSize(items, n) ==
    IF n = 0 THEN 0 ELSE ItemsSize(items, n - 1) + ItemSize(items[n])

ByteLength(data) ==
    IF data.isArray
    THEN LET n == ArrLen(data)
             last == IF Len(data.items) = 0 THEN 0
                     ELSE ItemSize(data.items[Len(data.items)])
         IN  2 + ItemsSize(data.items, Len(data.items)) + data.extra * last
               + (IF n = 0 THEN 0 ELSE n - 1)
    ELSE ItemSize(data.items[1])

\* ------------------------------------------------------------------------
\* process/index.ts: the metrics of a payload
\* ------------------------------------------------------------------------
NoFields == [f \in {} |-> 0]

ItemNoFields == NoFields

\* the value of `level` that stands for the string 'error'
LevelError == 1

Last(items) == items[Len(items)]

calculateMissingFieldsPenalty(item) ==
    (IF ~Truthy(item, "id") /\ ~Truthy(item, "name") /\ ~Truthy(item, "title")
     THEN 10 ELSE 0)
    + (IF Cardinality(DOMAIN item) = 0 THEN 20 ELSE 0)

Max0(n) == IF n < 0 THEN 0 ELSE n

calculateQualityScore_RewardsSize(data) ==
    IF data.isArray
    THEN Max0(100
              - (IF ArrLen(data) = 0 THEN 20 ELSE 0)
              + (IF ArrLen(data) > 1000 THEN 10 ELSE 0)
              - (IF ArrLen(data) > 0
                 THEN calculateMissingFieldsPenalty(data.items[1]) ELSE 0))
    ELSE Max0(100 - calculateMissingFieldsPenalty(data.items[1]))

calculateQualityScore(data) ==
    IF data.isArray
    THEN Max0(100
              - (IF ArrLen(data) = 0 THEN 20 ELSE 0)
              - (IF ArrLen(data) > 1000 THEN 10 ELSE 0)
              - (IF ArrLen(data) > 0
                 THEN calculateMissingFieldsPenalty(data.items[1]) ELSE 0))
    ELSE Max0(100 - calculateMissingFieldsPenalty(data.items[1]))

\* data.some(item => item[f])
SomeItem(data, f) == \E i \in 1..Len(data.items) : Truthy(data.items[i], f)

\* data.reduce((sum, item) => sum + (item[f] || 0), 0)
TotalOf(data, f) ==
    SumField(data.items, f, Len(data.items)) + data.extra * Field(Last(data.items), f)

\* [...new Set(data.map(item => item.category).filter(Boolean))]
CategoriesOf(data) ==
    {data.items[i]["category"] : i \in {j \in 1..Len(data.items) : Truthy(data.items[j], "category")}}

\* data.filter(item => item.level === 'error').length
ErrorCountOf(data) ==
    Cardinality({i \in 1..Len(data.items) : Field(data.items[i], "level") = LevelError})
    + (IF Field(Last(data.items), "level") = LevelError THEN data.extra ELSE 0)

processData(data) ==
    LET nonEmptyArray == data.isArray /\ ArrLen(data) > 0
        sample == data.items[1]
        amountField == IF Truthy(sample, "amount") THEN "amount" ELSE "price"
    IN  ("recordCount" :> (IF data.isArray THEN ArrLen(data) ELSE 1))
        @@ ("extractedFields" :>
               (IF nonEmptyArray THEN DOMAIN data.items[1]
                ELSE IF data.isArray THEN {} ELSE DOMAIN data.items[1]))
        @@ (IF nonEmptyArray /\ Truthy(sample, "email")
            THEN ("hasEmail" :> SomeItem(data, "email")) ELSE NoFields)
        @@ (IF nonEmptyArray /\ Truthy(sample, "phone")
            THEN ("hasPhone" :> SomeItem(data, "phone")) ELSE NoFields)
        @@ (IF nonEmptyArray /\ (Truthy(sample, "amount") \/ Truthy(sample, "price"))
            THEN ("totalAmount" :> TotalOf(data, amountField)) ELSE NoFields)
        @@ (IF nonEmptyArray /\ Truthy(sample, "category")
            THEN ("categories" :> CategoriesOf(data)) ELSE NoFields)
        @@ (IF nonEmptyArray /\ Truthy(sample, "level")
            THEN ("errorCount" :> ErrorCountOf(data)) ELSE NoFields)

\* Object.keys(data) of the handler: the indices of an array, the keys of an object
ObjectKeys(data) ==
    IF data.isArray THEN {ToString(k) : k \in 0..(ArrLen(data) - 1)}
    ELSE DOMAIN data.items[1]

BuildProcessingResults_BaseWins(data) ==
    ("recordCount" :> (IF data.isArray THEN ArrLen(data) ELSE 1))
    @@ ("dataSize" :> ByteLength(data))
    @@ ("validationStatus" :> "VALID")
    @@ ("extractedFields" :> ObjectKeys(data))
    @@ ("qualityScore" :> calculateQualityScore(data))
    @@ processData(data)

\* processedData.processingResults: { base..., ...processingResults }
BuildProcessingResults(data) ==
    processData(data)
    @@ ("recordCount" :> (IF data.isArray THEN ArrLen(data) ELSE 1))
    @@ ("dataSize" :> ByteLength(data))
    @@ ("validationStatus" :> "VALID")
    @@ ("extractedFields" :> ObjectKeys(data))
    @@ ("qualityScore" :> calculateQualityScore(data))

\* ------------------------------------------------------------------------
\* State
\* ------------------------------------------------------------------------
VARIABLES
    now,            \* Date.now(), milliseconds
    table,          \* the DynamoDB table, one item per dataId
    s3,             \* the bucket, one object per s3Key
    uploadedBus,    \* DataUploaded events put on the bus
    processedBus,   \* DataProcessed events put on the bus
    proc,           \* invocations of the process handler
    ins,            \* invocations of the insights handler on a bus event
    api,            \* invocations of the insights handler on an API request
    rateLimitStore, \* the module-level Map of the instance of the insights
                    \* lambda that serves the next request
    lambdas,        \* which instance that is, and the Maps of the other instances
    enableAIInsights, \* the deployment's setting behind ENABLE_AI_INSIGHTS
    history         \* what has happened so far (not program state)

vars == <<now, table, s3, uploadedBus, processedBus, proc, ins, api, rateLimitStore,
          lambdas, enableAIInsights, history>>

TenantIds == {"t1", "t2"}

DataIds == {"d1", "d2"}

\* const s3Key = `${tenantId}/${dataId}.json`
S3KeyOf(tenantId, dataId) == <<tenantId, dataId>>

S3Keys == TenantIds \X DataIds

ProcSlots == {"p1", "p2"}

InsSlots == {"i1", "i2"}

\* ------------------------------------------------------------------------
\* The bucket.  What GetObject and JSON.parse give for a key: the payload,
\* a thrown NoSuchKey, a response without Body, text that does not parse,
\* or the JSON value null.
\* ------------------------------------------------------------------------
EmptyArray == Arr(<<>>, 0)

S3Json(data) == [kind |-> "json", data |-> data]

S3Missing == [kind |-> "missing", data |-> EmptyArray]

S3NoBody == [kind |-> "nobody", data |-> EmptyArray]

S3Garbage == [kind |-> "garbage", data |-> EmptyArray]

S3Null == [kind |-> "null", data |-> EmptyArray]

\* GetObject + Body check + JSON.parse: the error thrown, if any
ReadError(obj) ==
    CASE obj.kind = "missing" -> Some("NoSuchKey")
      [] obj.kind = "nobody"  -> Some("No data found in S3 object")
      [] obj.kind = "garbage" -> Some("Unexpected token in JSON")
      [] OTHER                -> None

\* Object.keys(null) in processData
MetricsError(obj) ==
    IF obj.kind = "null" THEN Some("Cannot convert undefined or null to object") ELSE None

\* ------------------------------------------------------------------------
\* The table
\* ------------------------------------------------------------------------
NoItem ==
    [present |-> FALSE, tenantId |-> "t1", s3Key |-> None, timestamp |-> 0,
     status |-> "NONE", processedAt |-> None, processingResults |-> None,
     processingError |-> None, aiInsights |-> None, insightsGeneratedAt |-> None,
     insightsError |-> None, insights |-> <<>>, lastInsightAt |-> None]

\* metadataItem of the upload handler
UploadedItem(tenantId, dataId, timestamp) ==
    [NoItem EXCEPT !.present = TRUE, !.tenantId = tenantId,
                   !.s3Key = Some(S3KeyOf(tenantId, dataId)),
                   !.timestamp = timestamp, !.status = "UPLOADED"]

UploadedEvent(tenantId, dataId, timestamp) ==
    [tenantId |-> tenantId, dataId |-> dataId,
     s3Key |-> S3KeyOf(tenantId, dataId), timestamp |-> timestamp]

\* ------------------------------------------------------------------------
\* upload/index.ts handler: PutObject, PutItem, PutEvents
\* `stored` is what a later GetObject of the key gives.
\* ------------------------------------------------------------------------
Upload(tenantId, dataId, stored) ==
    /\ ~table[dataId].present
    /\ s3[S3KeyOf(tenantId, dataId)].kind = "missing"
    /\ s3' = [s3 EXCEPT ![S3KeyOf(tenantId, dataId)] = stored]
    /\ table' = [table EXCEPT ![dataId] = UploadedItem(tenantId, dataId, now)]
    /\ uploadedBus' = uploadedBus \cup {UploadedEvent(tenantId, dataId, now)}
    /\ UNCHANGED <<lambdas, enableAIInsights, now, processedBus, proc, ins, api, rateLimitStore, history>>

\* ------------------------------------------------------------------------
\* process/index.ts handler
\* ------------------------------------------------------------------------
IdleProc ==
    [pc |-> "idle", ev |-> UploadedEvent("t1", "d1", 0), results |-> NoFields,
     processedAt |-> 0, error |-> None, failedAt |-> "none", outcome |-> "none",
     thrown |-> None, errorSaved |-> FALSE]

\* process.env.ENABLE_AI_INSIGHTS === 'true'
ENABLE_AI_INSIGHTS == enableAIInsights

\* lines 47-88: GetObject, JSON.parse, processData, the record to write
ProcessStart(i, e) ==
    /\ proc[i].pc \in {"idle", "done"}
    /\ e \in uploadedBus
    /\ LET obj == s3[e.s3Key]
           err == IF IsSome(ReadError(obj)) THEN ReadError(obj) ELSE MetricsError(obj)
       IN  proc' = [proc EXCEPT ![i] =
               IF IsSome(err)
               THEN [IdleProc EXCEPT !.pc = "catch", !.ev = e, !.error = err,
                                     !.failedAt = "compute"]
               ELSE [IdleProc EXCEPT !.pc = "update", !.ev = e, !.processedAt = now,
                                     !.results = BuildProcessingResults(obj.data)]]
    /\ history' = [history EXCEPT !.procDeliveries = @ + 1]
    /\ UNCHANGED <<lambdas, enableAIInsights, now, table, s3, uploadedBus, processedBus, ins, api, rateLimitStore>>

ProcessedItem_ClearsError(item, processedAt, results) ==
    [item EXCEPT !.status = "PROCESSED", !.processedAt = Some(processedAt),
                 !.processingResults = Some(results), !.processingError = None]

ProcessedItem_Accumulates(item, processedAt, results) ==
    [item EXCEPT !.status = "PROCESSED", !.processedAt = Some(processedAt),
                 !.processingResults =
                     IF IsSome(@)
                     THEN Some([results EXCEPT !["recordCount"] = @ + Get(item.processingResults)["recordCount"]])
                     ELSE Some(results)]

\* The item after the UpdateCommand of lines 91-106
ProcessedItem(item, processedAt, results) ==
    [item EXCEPT !.status = "PROCESSED", !.processedAt = Some(processedAt),
                 !.processingResults = Some(results)]

\* lines 90-106: SET #status, processedAt, processingResults; or the send throws
ProcessUpdate(i, storeOk) ==
    /\ proc[i].pc = "update"
    /\ IF storeOk
       THEN /\ table' = [table EXCEPT ![proc[i].ev.dataId] =
                            ProcessedItem(@, proc[i].processedAt, proc[i].results)]
            /\ proc' = [proc EXCEPT ![i].pc = IF ENABLE_AI_INSIGHTS THEN "emit" ELSE "done",
                                    ![i].outcome = IF ENABLE_AI_INSIGHTS THEN "none" ELSE "returned"]
            /\ history' = [history EXCEPT
                   !.firstResults[proc[i].ev.dataId] =
                       IF IsSome(@) THEN @ ELSE Some(proc[i].results),
                   !.persisted[proc[i].ev.dataId] = @ + 1]
       ELSE /\ proc' = [proc EXCEPT ![i].pc = "catch",
                                    ![i].error = Some("DynamoDB unavailable"),
                                    ![i].failedAt = "update"]
            /\ UNCHANGED <<table, history>>
    /\ UNCHANGED <<lambdas, enableAIInsights, now, s3, uploadedBus, processedBus, ins, api, rateLimitStore>>

ProcessedEvent_DropsResults(e, processedAt, results) ==
    [tenantId |-> e.tenantId, dataId |-> e.dataId, s3Key |-> e.s3Key,
     timestamp |-> e.timestamp, processedAt |-> processedAt,
     processingResults |-> NoFields]

\* Detail of the DataProcessed event, lines 117-125
ProcessedEvent(e, processedAt, results) ==
    [tenantId |-> e.tenantId, dataId |-> e.dataId, s3Key |-> e.s3Key,
     timestamp |-> e.timestamp, processedAt |-> processedAt,
     processingResults |-> results]

\* lines 110-130: PutEvents DataProcessed; or the send throws
ProcessEmit(i, busOk) ==
    /\ proc[i].pc = "emit"
    /\ IF busOk
       THEN /\ processedBus' = processedBus \cup
                   {ProcessedEvent(proc[i].ev, proc[i].processedAt, proc[i].results)}
            /\ proc' = [proc EXCEPT ![i].pc = "done", ![i].outcome = "returned"]
       ELSE /\ proc' = [proc EXCEPT ![i].pc = "catch",
                                    ![i].error = Some("EventBridge unavailable"),
                                    ![i].failedAt = "emit"]
            /\ UNCHANGED processedBus
    /\ UNCHANGED <<lambdas, enableAIInsights, now, table, s3, uploadedBus, ins, api, rateLimitStore, history>>

ProcessFailedItem_NoMessage(item, message, at) ==
    [item EXCEPT !.status = "PROCESSING_FAILED", !.processedAt = Some(at)]

ProcessFailedItem_DropsResults(item, message, at) ==
    [item EXCEPT !.status = "PROCESSING_FAILED", !.processingError = Some(message),
                 !.processedAt = Some(at), !.processingResults = None]

\* The item after the UpdateCommand of lines 138-153
ProcessFailedItem(item, message, at) ==
    [item EXCEPT !.status = "PROCESSING_FAILED", !.processingError = Some(message),
                 !.processedAt = Some(at)]

ProcessRethrow_Swallows(p) == [p EXCEPT !.pc = "done", !.outcome = "returned"]

\* What the catch block ends with: `throw error`
ProcessRethrow(p) == [p EXCEPT !.pc = "done", !.outcome = "thrown", !.thrown = p.error]

\* lines 132-159: record the failure (an error of that update is only logged),
\* then rethrow
ProcessCatch(i, storeOk) ==
    /\ proc[i].pc = "catch"
    /\ IF storeOk
       THEN table' = [table EXCEPT ![proc[i].ev.dataId] =
                         ProcessFailedItem(@, Get(proc[i].error), now)]
       ELSE UNCHANGED table
    /\ proc' = [proc EXCEPT ![i] = [ProcessRethrow(@) EXCEPT !.errorSaved = storeOk]]
    /\ UNCHANGED <<lambdas, enableAIInsights, now, s3, uploadedBus, processedBus, ins, api, rateLimitStore, history>>

\* ------------------------------------------------------------------------
\* insights/index.ts: texts built from the processing results
\* ------------------------------------------------------------------------
\* processingResults.f || 0
OrZero(results, f) == IF f \in DOMAIN results THEN results[f] ELSE 0

\* `${processingResults.qualityScore || 'Unknown'}`
QualityText(results) ==
    IF OrZero(results, "qualityScore") = 0 THEN "Unknown"
    ELSE ToString(results["qualityScore"])

RECURSIVE Join(_)
Join(fields) ==
    IF fields = {} THEN ""
    ELSE LET f == CHOOSE x \in fields : TRUE
         IN  IF fields = {f} THEN f ELSE f \o ", " \o Join(fields \ {f})

\* (processingResults.extractedFields || []).join(', ')
FieldsText(results) ==
    IF "extractedFields" \in DOMAIN results THEN Join(results["extractedFields"]) ELSE ""

MODEL_ID == "anthropic.claude-3-sonnet-20240229-v1:0"

\* confidence in hundredths: 0.6 is 60
FALLBACK_CONFIDENCE == 60

generateFallbackInsights(results) ==
    [summary |-> "Fallback analysis for data with "
                    \o ToString(OrZero(results, "recordCount")) \o " records",
     keyInsights |-> <<"Data contains " \o ToString(OrZero(results, "recordCount")) \o " records",
                       "Data quality score: " \o QualityText(results),
                       "Data size: " \o ToString(OrZero(results, "dataSize")) \o "/1024 KB">>,
     recommendations |-> <<"Review data quality and completeness",
                           "Consider implementing data validation rules",
                           "Monitor data processing performance">>,
     riskFactors |-> <<"Fallback analysis used due to AI service unavailability",
                       "Limited insight depth compared to AI analysis">>,
     opportunities |-> <<"Implement automated data quality checks",
                         "Set up regular data processing monitoring",
                         "Consider data enrichment strategies">>,
     dataQualityNotes |-> <<"Quality score: " \o QualityText(results),
                            "Fields extracted: " \o FieldsText(results)>>,
     modelUsed |-> "fallback-rule-based",
     confidence |-> FALLBACK_CONFIDENCE]

\* A response text of the model: whether /\{[\s\S]*\}/ matches it, and the
\* value JSON.parse gives for the match (None: it throws).  A parsed field
\* that is absent or null is not in the domain.
Content(text, hasBraces, json) == [text |-> text, hasBraces |-> hasBraces, json |-> json]

\* parsed.f || dflt, for a string
StrOr(parsed, f, dflt) == IF f \in DOMAIN parsed /\ parsed[f] # "" THEN parsed[f] ELSE dflt

\* parsed.f || dflt, for an array (an empty array is truthy)
ArrOr(parsed, f, dflt) == IF f \in DOMAIN parsed THEN parsed[f] ELSE dflt

\* parsed.f || dflt, for a number
NumOr(parsed, f, dflt) == IF f \in DOMAIN parsed /\ parsed[f] # 0 THEN parsed[f] ELSE dflt

\* content.substring(0, 200)
Substring200(text) == IF Len(text) <= 200 THEN text ELSE SubSeq(text, 1, 200)

parseAIResponse(content) ==
    IF content.hasBraces /\ IsSome(content.json)
    THEN LET parsed == Get(content.json)
         IN  [summary |-> StrOr(parsed, "summary", "AI analysis completed"),
              keyInsights |-> ArrOr(parsed, "keyInsights", <<"Analysis completed successfully">>),
              recommendations |-> ArrOr(parsed, "recommendations",
                                        <<"Review the data for business opportunities">>),
              riskFactors |-> ArrOr(parsed, "riskFactors", <<"No immediate risks identified">>),
              opportunities |-> ArrOr(parsed, "opportunities",
                                      <<"Data analysis reveals potential for optimization">>),
              dataQualityNotes |-> ArrOr(parsed, "dataQualityNotes",
                                         <<"Data quality assessment completed">>),
              modelUsed |-> StrOr(parsed, "modelUsed", MODEL_ID),
              confidence |-> NumOr(parsed, "confidence", 80)]
    ELSE [summary |-> Substring200(content.text) \o "...",
          keyInsights |-> <<"AI analysis completed", "Review the full response for details">>,
          recommendations |-> <<"Consider the AI-generated insights for decision making">>,
          riskFactors |-> <<"No specific risks identified in the analysis">>,
          opportunities |-> <<"Data analysis provides insights for business optimization">>,
          dataQualityNotes |-> <<"AI analysis completed successfully">>,
          modelUsed |-> MODEL_ID,
          confidence |-> 70]

\* What the Bedrock call of a handler gives: a thrown error, or a response text
InferenceFails == [ok |-> FALSE, content |-> Content("", FALSE, None)]

InferenceGives(content) == [ok |-> TRUE, content |-> content]

generateAIInsights_NoFallback(results, inference) == parseAIResponse(inference.content)

\* generateAIInsights, lines 427-473
generateAIInsights(results, inference) ==
    IF inference.ok THEN parseAIResponse(inference.content)
    ELSE generateFallbackInsights(results)

\* ------------------------------------------------------------------------
\* insights/index.ts handler on a DataProcessed event
\* ------------------------------------------------------------------------
IdleIns ==
    [pc |-> "idle", ev |-> ProcessedEvent(UploadedEvent("t1", "d1", 0), 0, NoFields),
     insights |-> generateFallbackInsights(NoFields), inferenceFailed |-> FALSE,
     error |-> None, failedAt |-> "none", outcome |-> "none", thrown |-> None,
     errorSaved |-> FALSE]

\* What a GetObject of the key can give: the object, or NoSuchKey once the
\* object is gone from the bucket
Fetchable(key) == {s3[key], S3Missing}

\* lines 329-351: GetObject, JSON.parse, generateAIInsights
InsightsStart(i, e, inference, fetched) ==
    /\ ins[i].pc \in {"idle", "done"}
    /\ e \in processedBus
    /\ fetched \in Fetchable(e.s3Key)
    /\ LET err == ReadError(fetched)
       IN  ins' = [ins EXCEPT ![i] =
               IF IsSome(err)
               THEN [IdleIns EXCEPT !.pc = "catch", !.ev = e, !.error = err,
                                    !.failedAt = "read"]
               ELSE [IdleIns EXCEPT !.pc = "update", !.ev = e,
                                    !.insights = generateAIInsights(e.processingResults, inference),
                                    !.inferenceFailed = ~inference.ok]]
    /\ history' = [history EXCEPT !.insDeliveries = @ + 1]
    /\ UNCHANGED <<lambdas, enableAIInsights, now, table, s3, uploadedBus, processedBus, proc, api, rateLimitStore>>

InsightsItem_SummarisesPayload(item, insights, at) ==
    [item EXCEPT !.aiInsights =
                     Some([insights EXCEPT !.summary =
                              @ \o ", first " \o ToString(s3[Get(item.s3Key)].data.items[1])]),
                 !.insightsGeneratedAt = Some(at),
                 !.status = "INSIGHTS_GENERATED"]

\* The item after the UpdateCommand of lines 354-369
InsightsItem(item, insights, at) ==
    [item EXCEPT !.aiInsights = Some(insights), !.insightsGeneratedAt = Some(at),
                 !.status = "INSIGHTS_GENERATED"]

\* lines 353-371: SET aiInsights, insightsGeneratedAt, #status; or the send throws
InsightsUpdate(i, storeOk) ==
    /\ ins[i].pc = "update"
    /\ IF storeOk
       THEN /\ table' = [table EXCEPT ![ins[i].ev.dataId] =
                            InsightsItem(@, ins[i].insights, now)]
            /\ ins' = [ins EXCEPT ![i].pc = "done", ![i].outcome = "returned"]
       ELSE /\ ins' = [ins EXCEPT ![i].pc = "catch",
                                  ![i].error = Some("DynamoDB unavailable"),
                                  ![i].failedAt = "update"]
            /\ UNCHANGED table
    /\ UNCHANGED <<lambdas, enableAIInsights, now, s3, uploadedBus, processedBus, proc, api, rateLimitStore, history>>

InsightsFailedItem_SetsStatus(item, message, at) ==
    [item EXCEPT !.insightsError = Some(message), !.insightsGeneratedAt = Some(at),
                 !.status = "INSIGHTS_FAILED"]

\* The item after the UpdateCommand of lines 81-92
InsightsFailedItem(item, message, at) ==
    [item EXCEPT !.insightsError = Some(message), !.insightsGeneratedAt = Some(at)]

\* What the catch block of the handler ends with on a bus event: `throw error`
InsightsRethrow(p) == [p EXCEPT !.pc = "done", !.outcome = "thrown", !.thrown = p.error]

\* lines 58-98, not an API request: record the failure (an error of that update
\* is only logged), then rethrow
InsightsCatch(i, storeOk) ==
    /\ ins[i].pc = "catch"
    /\ IF storeOk
       THEN table' = [table EXCEPT ![ins[i].ev.dataId] =
                         InsightsFailedItem(@, Get(ins[i].error), now)]
       ELSE UNCHANGED table
    /\ ins' = [ins EXCEPT ![i] = [InsightsRethrow(@) EXCEPT !.errorSaved = storeOk]]
    /\ UNCHANGED <<lambdas, enableAIInsights, now, s3, uploadedBus, processedBus, proc, api, rateLimitStore, history>>

\* ------------------------------------------------------------------------
\* insights/index.ts handler on an API request (GetInsights)
\* ------------------------------------------------------------------------
UserIds == {"u1", "u2"}

\* line 102: new Map(), evaluated when an instance of the lambda loads the module
EmptyMap == [u \in UserIds |-> None]

\* The instances of the lambda that are running
MaxInstances == 2

InstanceIds == 1..MaxInstances

InitLambdas == [serving |-> 1, maps |-> [k \in InstanceIds |-> EmptyMap]]

\* The Map of instance k
MapOf(k) == IF k = lambdas.serving THEN rateLimitStore ELSE lambdas.maps[k]

SwitchedIn_SharedMap(k) == rateLimitStore

\* The Map that instance k finds when a request is routed to it: its own
SwitchedIn(k) == lambdas.maps[k]

\* The next request is routed to instance k; the Map of the instance that
\* served so far stays in that instance
Dispatch(k) ==
    /\ k # lambdas.serving
    /\ rateLimitStore' = SwitchedIn(k)
    /\ lambdas' = [serving |-> k,
                   maps |-> [lambdas.maps EXCEPT ![lambdas.serving] = rateLimitStore,
                                                 ![k] = EmptyMap]]
    /\ UNCHANGED <<enableAIInsights, now, table, s3, uploadedBus, processedBus, proc, ins, api, history>>

ApiSlots == {"a1", "a2"}

RATE_LIMIT_MAX_CALLS == 6

RATE_LIMIT_WINDOW_MS == 60000

MAX_PROMPT_LENGTH == 100

MAX_INSIGHTS == 10

Request(dataId, prompt, userId) == [dataId |-> dataId, prompt |-> prompt, userId |-> userId]

\* `prompt` as a condition: present and not the empty string
HasPrompt(prompt) == IsSome(prompt) /\ Get(prompt) # ""

CeilSeconds_Floor(ms) == ms \div 1000

\* Math.ceil(ms / 1000) for ms >= 0
CeilSeconds(ms) == (ms + 999) \div 1000

Response(statusCode, error) ==
    [statusCode |-> statusCode, error |-> error, message |-> "", retryAfter |-> 0,
     retryAfterHeader |-> "", insights |-> "", saved |-> FALSE,
     insightHistory |-> <<>>, tenantId |-> "", prompt |-> None]

RateLimitResponse(secondsUntilReset) ==
    [Response(429, "Rate limit exceeded") EXCEPT
        !.retryAfter = secondsUntilReset,
        !.retryAfterHeader = ToString(secondsUntilReset),
        !.message = "You have exceeded the rate limit of "
                      \o ToString(RATE_LIMIT_MAX_CALLS)
                      \o " requests per minute. Please try again in "
                      \o ToString(secondsUntilReset) \o " seconds."]

ServerError_Unhandled(message) == [Response(0, "") EXCEPT !.message = message]

\* lines 311-326 (and 62-76): the catch block's response
ServerError(message) == [Response(500, "Internal server error") EXCEPT !.message = message]

ValidationError_OffByOne(req) ==
    IF ~IsSome(req.dataId) \/ Get(req.dataId) = ""
    THEN Some(Response(400, "Missing required parameter: dataId"))
    ELSE IF HasPrompt(req.prompt) /\ Len(Get(req.prompt)) >= MAX_PROMPT_LENGTH
    THEN Some(Response(400, "Prompt is too long. Maximum length is 100 characters."))
    ELSE None

ValidationError_SkipsLength(req) ==
    IF ~IsSome(req.dataId) \/ Get(req.dataId) = ""
    THEN Some(Response(400, "Missing required parameter: dataId"))
    ELSE None

\* lines 112-141: the 400 response of the parameter checks, if any
ValidationError(req) ==
    IF ~IsSome(req.dataId) \/ Get(req.dataId) = ""
    THEN Some(Response(400, "Missing required parameter: dataId"))
    ELSE IF HasPrompt(req.prompt) /\ Len(Get(req.prompt)) > MAX_PROMPT_LENGTH
    THEN Some(Response(400, "Prompt is too long. Maximum length is 100 characters."))
    ELSE None

Bucket(count, resetTime) == [count |-> count, resetTime |-> resetTime]

RateLimited_AnyUser(bucket, at) ==
    /\ IsSome(bucket)
    /\ \E u \in DOMAIN rateLimitStore :
          /\ IsSome(rateLimitStore[u])
          /\ at < Get(rateLimitStore[u]).resetTime
          /\ Get(rateLimitStore[u]).count >= RATE_LIMIT_MAX_CALLS

RateLimited_OffByOne(bucket, at) ==
    /\ IsSome(bucket)
    /\ at < Get(bucket).resetTime
    /\ Get(bucket).count > RATE_LIMIT_MAX_CALLS

\* lines 149-187: whether the call is rejected by the limiter
RateLimited(bucket, at) ==
    /\ IsSome(bucket)
    /\ at < Get(bucket).resetTime
    /\ Get(bucket).count >= RATE_LIMIT_MAX_CALLS

BucketAfter_LateReset(bucket, at) ==
    IF IsSome(bucket)
    THEN IF at <= Get(bucket).resetTime
         THEN IF RateLimited(bucket, at)
              THEN bucket
              ELSE Some(Bucket(Get(bucket).count + 1, Get(bucket).resetTime))
         ELSE Some(Bucket(1, at + RATE_LIMIT_WINDOW_MS))
    ELSE Some(Bucket(1, at + RATE_LIMIT_WINDOW_MS))

BucketAfter_ExtendsWindow(bucket, at) ==
    IF IsSome(bucket)
    THEN IF at < Get(bucket).resetTime
         THEN IF RateLimited(bucket, at)
              THEN bucket
              ELSE Some(Bucket(Get(bucket).count + 1, at + RATE_LIMIT_WINDOW_MS))
         ELSE Some(Bucket(1, at + RATE_LIMIT_WINDOW_MS))
    ELSE Some(Bucket(1, at + RATE_LIMIT_WINDOW_MS))

BucketAfter_DropsIncrement(bucket, at) ==
    IF IsSome(bucket)
    THEN IF at < Get(bucket).resetTime
         THEN bucket
         ELSE Some(Bucket(1, at + RATE_LIMIT_WINDOW_MS))
    ELSE Some(Bucket(1, at + RATE_LIMIT_WINDOW_MS))

\* lines 149-187: the bucket of the user after the call
BucketAfter(bucket, at) ==
    IF IsSome(bucket)
    THEN IF at < Get(bucket).resetTime
         THEN IF RateLimited(bucket, at)
              THEN bucket
              ELSE Some(Bucket(Get(bucket).count + 1, Get(bucket).resetTime))
         ELSE Some(Bucket(1, at + RATE_LIMIT_WINDOW_MS))
    ELSE Some(Bucket(1, at + RATE_LIMIT_WINDOW_MS))

\* The calls admitted so far in the window of the user's bucket, counted from
\* what the caller sees: a window starts when the bucket's resetTime changes
AdmitsAfter(admits, bucket, after, admitted) ==
    (IF IsSome(bucket) /\ Get(after).resetTime = Get(bucket).resetTime THEN admits ELSE 0)
    + (IF admitted THEN 1 ELSE 0)

\* line 157
SecondsUntilReset(bucket, at) == CeilSeconds(Get(bucket).resetTime - at)

\* The locals of an invocation; inferenceFailed, admitted, replaced and
\* seenStatus (the status of the record the Scan returned) record what
\* happened in it and are read by no action
IdleApi ==
    [pc |-> "idle", req |-> Request(None, None, "u1"), tenantId |-> "",
     insights |-> "", timestamp |-> 0, updatedInsights |-> <<>>,
     inferenceFailed |-> FALSE, admitted |-> FALSE, replaced |-> 0,
     seenStatus |-> "NONE", resp |-> Response(0, "")]

Respond(a, resp) == [a EXCEPT !.pc = "done", !.resp = resp]

\* The count of the bucket that the call replaced by a new window (0: none)
Replaced(bucket, after) ==
    IF IsSome(bucket) /\ Get(after).resetTime # Get(bucket).resetTime
    THEN Get(bucket).count ELSE 0

\* lines 108-187: parameter checks and the rate limiter, up to the first await.
\* `counted` is 1 where a specification bounds the number of calls.
ApiStart(i, req, counted) ==
    /\ api[i].pc \in {"idle", "done"}
    /\ LET bucket == rateLimitStore[req.userId]
           after == BucketAfter(bucket, now)
           started == [IdleApi EXCEPT !.req = req]
       IN  IF IsSome(ValidationError(req))
           THEN /\ api' = [api EXCEPT ![i] = Respond(started, Get(ValidationError(req)))]
                /\ UNCHANGED rateLimitStore
                /\ history' = [history EXCEPT !.calls = @ + counted]
           ELSE /\ rateLimitStore' = [rateLimitStore EXCEPT ![req.userId] = after]
                /\ api' = [api EXCEPT ![i] =
                       IF RateLimited(bucket, now)
                       THEN Respond(started, RateLimitResponse(SecondsUntilReset(bucket, now)))
                       ELSE [started EXCEPT !.pc = "scan", !.admitted = TRUE,
                                            !.replaced = Replaced(bucket, after)]]
                /\ history' = [history EXCEPT
                       !.calls = @ + counted,
                       !.admits[req.userId] =
                           AdmitsAfter(@, bucket, after, ~RateLimited(bucket, now)),
                       !.admitted = @ + (IF RateLimited(bucket, now) THEN 0 ELSE counted),
                       !.admitTimes =
                           IF counted = 1 /\ ~RateLimited(bucket, now) THEN Append(@, now) ELSE @,
                       !.rejectTimes =
                           IF counted = 1 /\ RateLimited(bucket, now) THEN Append(@, now) ELSE @]
    /\ UNCHANGED <<lambdas, enableAIInsights, now, table, s3, uploadedBus, processedBus, proc, ins>>

ResultsOf_AssumesOneRecord(item) ==
    IF IsSome(item.processingResults) THEN Get(item.processingResults)
    ELSE ("recordCount" :> 1)

\* fileRecord.processingResults || {}
ResultsOf(item) == IF IsSome(item.processingResults) THEN Get(item.processingResults) ELSE NoFields

FallbackText_RawError(results, prompt) == "Bedrock API call failed"

\* line 423: the fallback response of generateAdditionalInsights
FallbackText(results, prompt) ==
    "Analysis completed with fallback method. "
    \o (IF HasPrompt(prompt) THEN "Question: " \o Get(prompt) ELSE "General analysis")
    \o " - Data contains " \o ToString(OrZero(results, "recordCount"))
    \o " records with quality score of " \o QualityText(results)
    \o ". Consider reviewing the data for business opportunities and potential improvements."

\* generateAdditionalInsights, lines 374-425
generateAdditionalInsights(results, prompt, inference) ==
    IF inference.ok THEN inference.content.text ELSE FallbackText(results, prompt)

\* lines 262-268
InsightRecord(timestamp, userId, prompt, response) ==
    [timestamp |-> timestamp, userId |-> userId,
     prompt |-> IF HasPrompt(prompt) THEN Get(prompt) ELSE "General insights",
     response |-> response]

\* seq.slice(-n)
SliceLast(seq, n) == IF Len(seq) <= n THEN seq ELSE SubSeq(seq, Len(seq) - n + 1, Len(seq))

UpdatedInsights_NoSlice(existingInsights, insightRecord) ==
    Append(existingInsights, insightRecord)

UpdatedInsights_KeepsOldest(existingInsights, insightRecord) ==
    SubSeq(Append(existingInsights, insightRecord), 1,
           IF Len(existingInsights) + 1 <= MAX_INSIGHTS THEN Len(existingInsights) + 1
           ELSE MAX_INSIGHTS)

\* lines 270-275
UpdatedInsights(existingInsights, insightRecord) ==
    SliceLast(Append(existingInsights, insightRecord), MAX_INSIGHTS)

\* lines 191-198: Scan with FilterExpression dataId = :dataId and Limit 1.
\* DynamoDB reads at most Limit items and filters what it read: `scanned` is
\* the item it reads first (None when the table is empty).
ScanItems(scanned, dataId) ==
    IF IsSome(scanned) /\ Get(scanned) = dataId THEN <<table[dataId]>> ELSE <<>>

ScanChoices == {None} \cup {Some(d) : d \in {x \in DataIds : table[x].present}}

ScanPossible(scanned) ==
    /\ scanned \in ScanChoices
    /\ (scanned = None) = (\A d \in DataIds : ~table[d].present)

\* Another request on the same item is between its Scan and its UpdateCommand
Overlaps(i, dataId) ==
    \E j \in ApiSlots \ {i} : api[j].pc = "save" /\ Get(api[j].req.dataId) = dataId

CanLookup_AlsoRejected(a) ==
    a.pc = "scan" \/ (a.pc = "done" /\ a.resp.statusCode = 429)

\* Line 189 is reached: no check has returned
CanLookup(a) == a.pc = "scan"

\* lines 189-275: Scan, GetObject (which may fail: fetchOk), JSON.parse,
\* generateAdditionalInsights and the history to write
ApiLookup(i, scanned, storeOk, inference) ==
    /\ CanLookup(api[i])
    /\ ScanPossible(scanned)
    /\ \E fetchOk \in BOOLEAN :
       LET a == api[i]
           dataId == Get(a.req.dataId)
           Items == ScanItems(scanned, dataId)
           fileRecord == Items[1]
           obj == IF fetchOk THEN s3[Get(fileRecord.s3Key)] ELSE S3Missing
           results == ResultsOf(fileRecord)
           insights == generateAdditionalInsights(results, a.req.prompt, inference)
           proceeds == /\ storeOk
                       /\ Len(Items) > 0
                       /\ IsSome(fileRecord.s3Key)
                       /\ ~IsSome(ReadError(obj))
       IN  /\ api' = [api EXCEPT ![i] =
                  IF ~storeOk THEN Respond(a, ServerError("DynamoDB unavailable"))
                  ELSE IF Len(Items) = 0 THEN Respond(a, Response(404, "File not found"))
                  ELSE IF ~IsSome(fileRecord.s3Key)
                  THEN Respond(a, Response(400, "No S3 key found for this file"))
                  ELSE IF obj.kind = "nobody" THEN Respond(a, Response(404, "Data not found in S3"))
                  ELSE IF IsSome(ReadError(obj)) THEN Respond(a, ServerError(Get(ReadError(obj))))
                  ELSE [a EXCEPT !.pc = "save",
                                 !.tenantId = fileRecord.tenantId,
                                 !.insights = insights,
                                 !.timestamp = now,
                                 !.inferenceFailed = ~inference.ok,
                                 !.seenStatus = fileRecord.status,
                                 !.updatedInsights =
                                     UpdatedInsights(fileRecord.insights,
                                         InsightRecord(now, a.req.userId, a.req.prompt, insights))]]
           /\ history' = IF proceeds /\ Overlaps(i, dataId)
                         THEN [history EXCEPT !.overlapped[dataId] = TRUE]
                         ELSE history
    /\ UNCHANGED <<lambdas, enableAIInsights, now, table, s3, uploadedBus, processedBus, proc, ins, rateLimitStore>>

InsightSavedItem_SetsStatus(item, updatedInsights, timestamp) ==
    [item EXCEPT !.insights = updatedInsights, !.lastInsightAt = Some(timestamp),
                 !.status = "INSIGHTS_GENERATED"]

InsightSavedItem_PutsItem(item, updatedInsights, timestamp) ==
    [NoItem EXCEPT !.present = TRUE, !.tenantId = item.tenantId, !.s3Key = item.s3Key,
                   !.insights = updatedInsights, !.lastInsightAt = Some(timestamp)]

\* The item after the UpdateCommand of lines 278-289
InsightSavedItem(item, updatedInsights, timestamp) ==
    [item EXCEPT !.insights = updatedInsights, !.lastInsightAt = Some(timestamp)]

\* lines 293-309
SuccessResponse(a) ==
    [Response(200, "") EXCEPT !.insights = a.insights, !.tenantId = a.tenantId,
                              !.prompt = a.req.prompt, !.saved = TRUE,
                              !.insightHistory = a.updatedInsights]

\* lines 277-326: SET insights, lastInsightAt and the 200 response; or the
\* send throws and the catch block answers 500
ApiSave(i, storeOk) ==
    /\ api[i].pc = "save"
    /\ LET a == api[i]
           dataId == Get(a.req.dataId)
       IN  IF storeOk
           THEN /\ table' = [table EXCEPT ![dataId] =
                                InsightSavedItem(@, a.updatedInsights, a.timestamp)]
                /\ api' = [api EXCEPT ![i] = Respond(a, SuccessResponse(a))]
                /\ history' = [history EXCEPT
                       !.queryLog[dataId] =
                           Append(@, InsightRecord(a.timestamp, a.req.userId, a.req.prompt, a.insights)),
                       !.crossed[dataId] = @ \/ table[dataId].status # a.seenStatus]
           ELSE /\ api' = [api EXCEPT ![i] = Respond(a, ServerError("DynamoDB unavailable"))]
                /\ UNCHANGED <<table, history>>
    /\ UNCHANGED <<lambdas, enableAIInsights, now, s3, uploadedBus, processedBus, proc, ins, rateLimitStore>>

\* Time passes
Tick(ms) ==
    /\ now' = now + ms
    /\ history' = [history EXCEPT !.ticks = @ + 1]
    /\ UNCHANGED <<lambdas, enableAIInsights, table, s3, uploadedBus, processedBus, proc, ins, api, rateLimitStore>>

\* ------------------------------------------------------------------------
\* Inputs
\* ------------------------------------------------------------------------
ScenarioPayload == Arr(<<ItemAB(1, 10), ItemAB(2, 20)>>, 0)

\* Payload shapes: arrays of 0, 1, 2, 1000 and 1001 items, single objects;
\* first item with a name or id, without id, name and title, without fields,
\* with an id that is 0
Payloads ==
    {ScenarioPayload, EmptyArray, Obj(ItemAB(1, 10)), Obj(ItemValueOnly), Obj(ItemNoFields),
     Arr(<<ItemValueOnly>>, 0), Arr(<<ItemNoFields>>, 0), Arr(<<ItemFull>>, 0),
     Arr(<<ItemFull>>, 999), Arr(<<ItemFull>>, 1000),
     Arr(<<ItemValueOnly>>, 1000), Arr(<<ItemNoFields>>, 1000),
     Arr(<<ItemZeroId>>, 0)}

\* What the bucket holds for an uploaded key when a handler reads it
StoredObjects ==
    {S3Json(ScenarioPayload), S3Json(EmptyArray), S3Missing, S3NoBody, S3Garbage, S3Null}

FullJsonContent ==
    Content("{...}", TRUE,
            Some([summary |-> "S", keyInsights |-> <<"k">>, recommendations |-> <<"r">>,
                  riskFactors |-> <<"f">>, opportunities |-> <<"o">>,
                  dataQualityNotes |-> <<"n">>, modelUsed |-> "m", confidence |-> 85]))

FreeTextContent == Content("The total amount is 30.", FALSE, None)

Inferences == {InferenceFails, InferenceGives(FullJsonContent), InferenceGives(FreeTextContent)}

ScenarioPrompt == "total amount?"

InitHistory ==
    [ticks |-> 0, procDeliveries |-> 0, insDeliveries |-> 0, calls |-> 0,
     firstResults |-> [d \in DataIds |-> None],
     persisted |-> [d \in DataIds |-> 0],
     baseHistory |-> [d \in DataIds |-> <<>>],
     queryLog |-> [d \in DataIds |-> <<>>],
     overlapped |-> [d \in DataIds |-> FALSE],
     crossed |-> [d \in DataIds |-> FALSE],
     admits |-> [u \in UserIds |-> 0],
     admitted |-> 0,
     admitTimes |-> <<>>,
     rejectTimes |-> <<>>]

\* ------------------------------------------------------------------------
\* The pipeline: upload, processing, event-path insights, and queries
\* ------------------------------------------------------------------------
MaxDeliveries == 4

Init ==
    /\ now = 0
    /\ table = [d \in DataIds |-> NoItem]
    /\ s3 = [k \in S3Keys |-> S3Missing]
    /\ uploadedBus = {}
    /\ processedBus = {}
    /\ proc = [i \in ProcSlots |-> IdleProc]
    /\ ins = [i \in InsSlots |-> IdleIns]
    /\ api = [i \in ApiSlots |-> IdleApi]
    /\ rateLimitStore = EmptyMap
    /\ lambdas = InitLambdas
    /\ enableAIInsights \in BOOLEAN
    /\ history = InitHistory

Next ==
    \/ \E stored \in StoredObjects : Upload("t1", "d1", stored)
    \/ \E i \in ProcSlots, e \in uploadedBus :
          history.procDeliveries + history.insDeliveries < MaxDeliveries /\ ProcessStart(i, e)
    \/ \E i \in ProcSlots, ok \in BOOLEAN : ProcessUpdate(i, ok)
    \/ \E i \in ProcSlots, ok \in BOOLEAN : ProcessEmit(i, ok)
    \/ \E i \in ProcSlots, ok \in BOOLEAN : ProcessCatch(i, ok)
    \/ \E i \in InsSlots, e \in processedBus, inference \in Inferences :
       \E fetched \in Fetchable(e.s3Key) :
          /\ history.procDeliveries + history.insDeliveries < MaxDeliveries
          /\ InsightsStart(i, e, inference, fetched)
    \/ \E i \in InsSlots, ok \in BOOLEAN : InsightsUpdate(i, ok)
    \/ \E i \in InsSlots, ok \in BOOLEAN : InsightsCatch(i, ok)

Spec == Init /\ [][Next]_vars

\* ------------------------------------------------------------------------
\* Queries on a processed record.  The record is what the upload and the
\* process handler leave for the scenario payload; its history is empty or
\* holds the entries of EarlierQueries earlier general queries, and the
\* lambda has cold-started since (an empty rate-limit map).
\* ------------------------------------------------------------------------
EarlierQueries == 9

MaxQueryCalls == 2

MaxQueryTicks == 1

ScenarioResults == BuildProcessingResults(ScenarioPayload)

ProcessedScenarioItem ==
    ProcessedItem(UploadedItem("t1", "d1", 0), 0, ScenarioResults)

EarlierEntry(k) == InsightRecord(k, "u1", None, FallbackText(ScenarioResults, None))

EarlierHistory == [k \in 1..EarlierQueries |-> EarlierEntry(k)]

QueryRequests ==
    {Request(Some("d1"), p, "u1") : p \in {None, Some(ScenarioPrompt)}}

QueryInferences == {InferenceFails, InferenceGives(FreeTextContent)}

InitQueries ==
    /\ now = EarlierQueries + 1
    /\ \E h \in {<<>>, EarlierHistory} :
          /\ table = [d \in DataIds |->
                         IF d = "d1" THEN [ProcessedScenarioItem EXCEPT !.insights = h]
                         ELSE NoItem]
          /\ history = [InitHistory EXCEPT !.baseHistory["d1"] = h]
    /\ s3 = [k \in S3Keys |-> IF k = S3KeyOf("t1", "d1") THEN S3Json(ScenarioPayload) ELSE S3Missing]
    /\ uploadedBus = {}
    /\ processedBus = {}
    /\ proc = [i \in ProcSlots |-> IdleProc]
    /\ ins = [i \in InsSlots |-> IdleIns]
    /\ api = [i \in ApiSlots |-> IdleApi]
    /\ rateLimitStore = EmptyMap
    /\ lambdas = InitLambdas
    /\ enableAIInsights = TRUE

NextQueries ==
    \/ \E i \in ApiSlots, req \in QueryRequests :
          history.calls < MaxQueryCalls /\ ApiStart(i, req, 1)
    \/ \E i \in ApiSlots, scanned \in ScanChoices, ok \in BOOLEAN, inference \in QueryInferences :
          ApiLookup(i, scanned, ok, inference)
    \/ \E i \in ApiSlots, ok \in BOOLEAN : ApiSave(i, ok)
    \/ (history.ticks < MaxQueryTicks /\ Tick(1))

SpecQueries == InitQueries /\ [][NextQueries]_vars

\* ------------------------------------------------------------------------
\* The rate limiter, on a fresh deployment: no record has been uploaded, so
\* an admitted call ends with 404 (or 500 when the Scan fails).
\* ------------------------------------------------------------------------
MaxLimiterTicks == 3

TickSteps == {1, RATE_LIMIT_WINDOW_MS - 1}

LongPrompt ==
    "0123456789012345678901234567890123456789012345678901234567890123456789012345678901234567890123456789x"

LimiterRequests ==
    {Request(Some("d1"), None, u) : u \in UserIds}
    \cup {Request(Some("d1"), Some(LongPrompt), "u1"), Request(None, None, "u1")}

NextLimiter ==
    \/ \E req \in LimiterRequests : ApiStart("a1", req, 0)
    \/ \E scanned \in ScanChoices, ok \in BOOLEAN : ApiLookup("a1", scanned, ok, InferenceFails)
    \/ \E ms \in TickSteps : history.ticks < MaxLimiterTicks /\ Tick(ms)

SpecLimiter == Init /\ [][NextLimiter]_vars

\* ------------------------------------------------------------------------
\* The API handler in front of a table with one or two records: d1 has been
\* through the whole pipeline, d2 (of another tenant) is absent or has just
\* been uploaded.  One user sends one request after the other.
\* ------------------------------------------------------------------------
MaxGatewayCalls == 7

\* A prompt of exactly 100 characters
ExactPrompt ==
    "abcdefghijabcdefghijabcdefghijabcdefghijabcdefghijabcdefghijabcdefghijabcdefghijabcdefghijabcdefghij"

GatewayRequests ==
    {Request(Some("d1"), None, "u1"), Request(Some("d1"), Some(ExactPrompt), "u1"),
     Request(Some("d1"), Some(LongPrompt), "u1"), Request(None, Some(ScenarioPrompt), "u1"),
     Request(Some(""), None, "u1"), Request(Some("d2"), None, "u1")}

InsightsScenarioItem ==
    InsightsItem(ProcessedScenarioItem, generateFallbackInsights(ScenarioResults), 0)

InitGateway ==
    /\ now = 0
    /\ \E second \in {NoItem, UploadedItem("t2", "d2", 0)} :
          /\ table = [d \in DataIds |-> IF d = "d1" THEN InsightsScenarioItem ELSE second]
          /\ s3 = [k \in S3Keys |->
                      IF k = S3KeyOf("t1", "d1") THEN S3Json(ScenarioPayload)
                      ELSE IF k = S3KeyOf("t2", "d2") /\ second.present THEN S3Json(EmptyArray)
                      ELSE S3Missing]
    /\ uploadedBus = {}
    /\ processedBus = {}
    /\ proc = [i \in ProcSlots |-> IdleProc]
    /\ ins = [i \in InsSlots |-> IdleIns]
    /\ api = [i \in ApiSlots |-> IdleApi]
    /\ rateLimitStore = EmptyMap
    /\ lambdas = InitLambdas
    /\ enableAIInsights = TRUE
    /\ history = InitHistory

NextGateway ==
    \/ \E req \in GatewayRequests :
          history.calls < MaxGatewayCalls /\ ApiStart("a1", req, 1)
    \/ \E scanned \in ScanChoices, ok \in BOOLEAN :
          ApiLookup("a1", scanned, ok, InferenceFails)
    \/ \E ok \in BOOLEAN : ApiSave("a1", ok)

SpecGateway == InitGateway /\ [][NextGateway]_vars

\* ------------------------------------------------------------------------
\* The process handler on payloads of every shape: two records are uploaded
\* and processed by one invocation after the other.
\* ------------------------------------------------------------------------
MaxScoringDeliveries == 2

NextScoring ==
    \/ \E d \in DataIds, data \in Payloads : Upload("t1", d, S3Json(data))
    \/ \E e \in uploadedBus :
          history.procDeliveries < MaxScoringDeliveries /\ ProcessStart("p1", e)
    \/ \E ok \in BOOLEAN : ProcessUpdate("p1", ok)
    \/ \E ok \in BOOLEAN : ProcessEmit("p1", ok)
    \/ \E ok \in BOOLEAN : ProcessCatch("p1", ok)

SpecScoring == Init /\ [][NextScoring]_vars

\* ------------------------------------------------------------------------
\* The insights handler on the DataProcessed event of the scenario record,
\* with every kind of response text of the model: JSON with all fields, with
\* one field absent, with one field empty, with no field, text without
\* JSON, empty text, and braces that do not parse.
\* ------------------------------------------------------------------------
MaxParseDeliveries == 2

FullFields == Get(FullJsonContent.json)

\* The empty value of a field: "" for a string, [] for an array, 0 for a number
EmptyOf(f) ==
    CASE f \in {"summary", "modelUsed"} -> ""
      [] f = "confidence"              -> 0
      [] OTHER                         -> <<>>

Without(f) == [g \in (DOMAIN FullFields) \ {f} |-> FullFields[g]]

Emptied(f) == [g \in DOMAIN FullFields |-> IF g = f THEN EmptyOf(f) ELSE FullFields[g]]

ParseContents ==
    {FullJsonContent, FreeTextContent, Content("", FALSE, None), Content("{oops}", TRUE, None),
     Content("{}", TRUE, Some(NoFields))}
    \cup {Content("{...}", TRUE, Some(Without(f))) : f \in DOMAIN FullFields}
    \cup {Content("{...}", TRUE, Some(Emptied(f))) : f \in DOMAIN FullFields}

ParseInferences == {InferenceFails} \cup {InferenceGives(c) : c \in ParseContents}

ScenarioUploadedEvent == UploadedEvent("t1", "d1", 0)

ScenarioProcessedEvent == ProcessedEvent(ScenarioUploadedEvent, 0, ScenarioResults)

InitInsights ==
    /\ now = 0
    /\ table = [d \in DataIds |-> IF d = "d1" THEN ProcessedScenarioItem ELSE NoItem]
    /\ s3 = [k \in S3Keys |-> IF k = S3KeyOf("t1", "d1") THEN S3Json(ScenarioPayload) ELSE S3Missing]
    /\ uploadedBus = {ScenarioUploadedEvent}
    /\ processedBus = {ScenarioProcessedEvent}
    /\ proc = [i \in ProcSlots |-> IdleProc]
    /\ ins = [i \in InsSlots |-> IdleIns]
    /\ api = [i \in ApiSlots |-> IdleApi]
    /\ rateLimitStore = EmptyMap
    /\ lambdas = InitLambdas
    /\ enableAIInsights = TRUE
    /\ history = [InitHistory EXCEPT !.procDeliveries = 1,
                                     !.firstResults["d1"] = Some(ScenarioResults),
                                     !.persisted["d1"] = 1]

NextInsights ==
    \/ \E e \in processedBus, inference \in ParseInferences :
       \E fetched \in Fetchable(e.s3Key) :
          /\ history.insDeliveries < MaxParseDeliveries
          /\ InsightsStart("i1", e, inference, fetched)
    \/ \E ok \in BOOLEAN : InsightsUpdate("i1", ok)
    \/ \E ok \in BOOLEAN : InsightsCatch("i1", ok)

SpecInsights == InitInsights /\ [][NextInsights]_vars

\* ------------------------------------------------------------------------
\* Requests of one user that are in flight together in one process, within
\* one window: a request is started while the other awaits its Scan.
\* ------------------------------------------------------------------------
MaxConcurrentCalls == 8

NextConcurrent ==
    \/ \E i \in ApiSlots :
          /\ history.calls < MaxConcurrentCalls
          /\ ApiStart(i, Request(Some("d1"), None, "u1"), 1)
    \/ \E i \in ApiSlots, scanned \in ScanChoices, ok \in BOOLEAN :
          ApiLookup(i, scanned, ok, InferenceFails)

SpecConcurrent == Init /\ [][NextConcurrent]_vars

\* ------------------------------------------------------------------------
\* Requests of one user within one window, served by the running instances
\* of the lambda in any order.
\* ------------------------------------------------------------------------
MaxInstanceCalls == 13

NextInstances ==
    \/ (/\ history.calls < MaxInstanceCalls
        /\ ApiStart("a1", Request(Some("d1"), None, "u1"), 1))
    \/ \E scanned \in ScanChoices, ok \in BOOLEAN : ApiLookup("a1", scanned, ok, InferenceFails)
    \/ \E k \in InstanceIds : Dispatch(k)

SpecInstances == Init /\ [][NextInstances]_vars

\* ------------------------------------------------------------------------
\* Requests of one user around the end of a window: the clock moves by one
\* millisecond or by one millisecond less than a window.
\* ------------------------------------------------------------------------
MaxBurstCalls == 13

MaxBurstTicks == 2

NextBurst ==
    \/ (/\ history.calls < MaxBurstCalls
        /\ ApiStart("a1", Request(Some("d1"), None, "u1"), 1))
    \/ \E scanned \in ScanChoices, ok \in BOOLEAN : ApiLookup("a1", scanned, ok, InferenceFails)
    \/ \E ms \in TickSteps : history.ticks < MaxBurstTicks /\ Tick(ms)

SpecBurst == Init /\ [][NextBurst]_vars

\* ------------------------------------------------------------------------
\* Two records through the pipeline: their payloads differ and may have the
\* same metrics.  Insights invocation i1 serves the events of d1, i2 those
\* of d2.
\* ------------------------------------------------------------------------
MaxTwinDeliveries == 4

\* Same length, same keys, same byte size and same total as the scenario
\* payload, other names
TwinPayload == Arr(<<ItemAB(3, 10), ItemAB(4, 20)>>, 0)

TwinPayloads == {ScenarioPayload, TwinPayload, Obj(ItemAB(1, 10))}

ServedBy(d) == IF d = "d1" THEN "i1" ELSE "i2"

NextTwins ==
    \/ \E d \in DataIds, data \in TwinPayloads : Upload("t1", d, S3Json(data))
    \/ \E e \in uploadedBus :
          /\ history.procDeliveries + history.insDeliveries < MaxTwinDeliveries
          /\ ProcessStart("p1", e)
    \/ \E ok \in BOOLEAN : ProcessUpdate("p1", ok)
    \/ \E ok \in BOOLEAN : ProcessEmit("p1", ok)
    \/ \E ok \in BOOLEAN : ProcessCatch("p1", ok)
    \/ \E e \in processedBus, inference \in {InferenceFails, InferenceGives(FreeTextContent)} :
       \E fetched \in Fetchable(e.s3Key) :
          /\ history.procDeliveries + history.insDeliveries < MaxTwinDeliveries
          /\ InsightsStart(ServedBy(e.dataId), e, inference, fetched)
    \/ \E i \in InsSlots, ok \in BOOLEAN : InsightsUpdate(i, ok)
    \/ \E i \in InsSlots, ok \in BOOLEAN : InsightsCatch(i, ok)

SpecTwins == Init /\ [][NextTwins]_vars

\* ------------------------------------------------------------------------
\* Queries on the record d1 with every kind of prompt: absent, empty, short,
\* of exactly 100 characters and of 101
\* ------------------------------------------------------------------------
MaxPromptCalls == 4

PromptChoices == {None, Some(""), Some(ScenarioPrompt), Some(ExactPrompt), Some(LongPrompt)}

NextPrompts ==
    \/ \E prompt \in PromptChoices :
          /\ history.calls < MaxPromptCalls
          /\ ApiStart("a1", Request(Some("d1"), prompt, "u1"), 1)
    \/ \E scanned \in ScanChoices, ok \in BOOLEAN :
          ApiLookup("a1", scanned, ok, InferenceFails)
    \/ \E ok \in BOOLEAN : ApiSave("a1", ok)

SpecPrompts == InitGateway /\ [][NextPrompts]_vars

\* ------------------------------------------------------------------------
\* The pipeline and a query on the same record, interleaved: the scenario
\* record has been uploaded; the process handler, the insights handler and
\* an API request run one invocation each at a time.
\* ------------------------------------------------------------------------
MaxMixedDeliveries == 3

MaxMixedCalls == 1

InitMixed ==
    /\ now = 0
    /\ table = [d \in DataIds |-> IF d = "d1" THEN UploadedItem("t1", "d1", 0) ELSE NoItem]
    /\ s3 = [k \in S3Keys |-> IF k = S3KeyOf("t1", "d1") THEN S3Json(ScenarioPayload) ELSE S3Missing]
    /\ uploadedBus = {ScenarioUploadedEvent}
    /\ processedBus = {}
    /\ proc = [i \in ProcSlots |-> IdleProc]
    /\ ins = [i \in InsSlots |-> IdleIns]
    /\ api = [i \in ApiSlots |-> IdleApi]
    /\ rateLimitStore = EmptyMap
    /\ lambdas = InitLambdas
    /\ enableAIInsights = TRUE
    /\ history = InitHistory

NextMixed ==
    \/ \E e \in uploadedBus :
          /\ history.procDeliveries + history.insDeliveries < MaxMixedDeliveries
          /\ ProcessStart("p1", e)
    \/ \E ok \in BOOLEAN : ProcessUpdate("p1", ok)
    \/ \E ok \in BOOLEAN : ProcessEmit("p1", ok)
    \/ \E ok \in BOOLEAN : ProcessCatch("p1", ok)
    \/ \E e \in processedBus, inference \in QueryInferences :
       \E fetched \in Fetchable(e.s3Key) :
          /\ history.procDeliveries + history.insDeliveries < MaxMixedDeliveries
          /\ InsightsStart("i1", e, inference, fetched)
    \/ \E ok \in BOOLEAN : InsightsUpdate("i1", ok)
    \/ \E ok \in BOOLEAN : InsightsCatch("i1", ok)
    \/ (/\ history.calls < MaxMixedCalls
        /\ ApiStart("a1", Request(Some("d1"), Some(ScenarioPrompt), "u1"), 1))
    \/ \E scanned \in ScanChoices, ok \in BOOLEAN :
          ApiLookup("a1", scanned, ok, InferenceFails)
    \/ \E ok \in BOOLEAN : ApiSave("a1", ok)

SpecMixed == InitMixed /\ [][NextMixed]_vars

\* ------------------------------------------------------------------------
\* The pipeline under a bus that retries.  One record is uploaded with a
\* payload that parses.  The bus delivers an event to its handler until an
\* invocation returns, and may deliver it again afterwards.  The stores and
\* the bucket may fail in the first MaxLiveFailures invocations and are
\* available from then on.
\* ------------------------------------------------------------------------
MaxLiveFailures == 2

MaxLiveDeliveries == 3

LiveDeliveries == history.procDeliveries + history.insDeliveries

\* The store may fail in the invocation that is running
MayFail(ok) == ok \/ LiveDeliveries <= MaxLiveFailures

LivePayloads == {ScenarioPayload, EmptyArray, Obj(ItemAB(1, 10))}

\* The first delivery of the uploaded event and its retries
ProcessDelivery ==
    \E e \in uploadedBus : proc["p1"].outcome # "returned" /\ ProcessStart("p1", e)

\* The first delivery of the processed event and its retries
InsightsDelivery ==
    \E e \in processedBus, inference \in Inferences :
    \E fetched \in Fetchable(e.s3Key) :
        /\ ins["i1"].outcome # "returned"
        /\ ReadError(fetched) = None \/ LiveDeliveries < MaxLiveFailures
        /\ InsightsStart("i1", e, inference, fetched)

\* An event is delivered again although an invocation returned
Redelivery ==
    /\ LiveDeliveries < MaxLiveDeliveries
    /\ \/ \E e \in uploadedBus : proc["p1"].outcome = "returned" /\ ProcessStart("p1", e)
       \/ \E e \in processedBus :
             /\ ins["i1"].outcome = "returned"
             /\ InsightsStart("i1", e, InferenceFails, s3[e.s3Key])

ProcessSteps ==
    \E ok \in BOOLEAN :
        /\ MayFail(ok)
        /\ ProcessUpdate("p1", ok) \/ ProcessEmit("p1", ok) \/ ProcessCatch("p1", ok)

InsightsSteps ==
    \E ok \in BOOLEAN :
        /\ MayFail(ok)
        /\ InsightsUpdate("i1", ok) \/ InsightsCatch("i1", ok)

NextLive ==
    \/ \E data \in LivePayloads : Upload("t1", "d1", S3Json(data))
    \/ ProcessDelivery
    \/ ProcessSteps
    \/ InsightsDelivery
    \/ InsightsSteps
    \/ Redelivery

\* The bus delivers and retries, and a running invocation goes on
LiveFairness ==
    /\ WF_vars(ProcessDelivery)
    /\ WF_vars(ProcessSteps)
    /\ WF_vars(InsightsDelivery)
    /\ WF_vars(InsightsSteps)

SpecLive == Init /\ [][NextLive]_vars /\ LiveFairness

\* ------------------------------------------------------------------------
\* Properties of the rate limiter (SpecLimiter)
\* ------------------------------------------------------------------------
\* This step starts request api'[i].req, and the request passes the parameter
\* checks and so reaches the rate limiter
ReachesLimiter(i) ==
    /\ api[i].pc \in {"idle", "done"}
    /\ api'[i] # api[i]
    /\ ~IsSome(ValidationError(api'[i].req))

WindowOpen(u) == IsSome(rateLimitStore[u]) /\ now < Get(rateLimitStore[u]).resetTime

AtMostSixPerWindow ==
    \A u \in UserIds :
        /\ history.admits[u] <= 6
        /\ IsSome(rateLimitStore[u]) => Get(rateLimitStore[u]).count <= 6

SeventhCallRejected ==
    \A i \in ApiSlots :
        ReachesLimiter(i) /\ WindowOpen(api'[i].req.userId)
                          /\ history.admits[api'[i].req.userId] >= 6
        => /\ api'[i].pc = "done"
           /\ api'[i].resp.statusCode = 429
           /\ api'[i].resp.error = "Rate limit exceeded"
           /\ api'[i].resp.retryAfter \in 1..60

\* C1: for every user, at most 6 calls are admitted in one window of the
\* user's bucket and the bucket's count never exceeds 6; a call that reaches
\* the limiter when 6 calls were admitted in the open window is answered 429
\* "Rate limit exceeded" with retryAfter between 1 and 60 seconds.
C1_SixCallsPerWindow == []AtMostSixPerWindow /\ [][SeventhCallRejected]_vars

\* A seventh call of a user was answered 429 in a window with 6 admitted calls
C1_Witness ==
    /\ api["a1"].pc = "done"
    /\ api["a1"].resp.statusCode = 429
    /\ history.admits[api["a1"].req.userId] = 6
    /\ Get(rateLimitStore[api["a1"].req.userId]).count = 6

AdmittedWithNewWindow(i) ==
    LET u == api'[i].req.userId
    IN  /\ api'[i].pc = "scan"
        /\ api'[i].admitted
        /\ rateLimitStore'[u] = Some(Bucket(1, now + 60000))

\* C10: a call that reaches the limiter when the user's bucket has expired
\* (now >= resetTime), whatever its count, or when the user has no bucket, is
\* admitted and leaves the bucket at count 1 with resetTime = now + 60000.
C10_ExpiredOrNoBucketAdmits ==
    [][\A i \in ApiSlots :
          ReachesLimiter(i) /\ ~WindowOpen(api'[i].req.userId) => AdmittedWithNewWindow(i)]_vars

\* A call was admitted at or after the resetTime of a bucket that had count 6
C10_Witness ==
    \E u \in UserIds :
        /\ api["a1"].replaced = 6
        /\ IsSome(rateLimitStore[u])
        /\ Get(rateLimitStore[u]).count = 1
        /\ Get(rateLimitStore[u]).resetTime = now + 60000
        /\ api["a1"].pc = "scan"
        /\ api["a1"].req.userId = u

\* ------------------------------------------------------------------------
\* Properties of the pipeline (Spec)
\* ------------------------------------------------------------------------
StatusKeepsStage(d) ==
    /\ table[d].status = "INSIGHTS_GENERATED" => table'[d].status = "INSIGHTS_GENERATED"
    /\ table[d].status = "PROCESSED" => table'[d].status # "UPLOADED"

\* C4: under redelivery of Uploaded and Processed events, a status of
\* INSIGHTS_GENERATED never later becomes PROCESSED, PROCESSING_FAILED or
\* UPLOADED, and a status of PROCESSED never becomes UPLOADED.
C4_StatusNeverRegresses == [][\A d \in DataIds : StatusKeepsStage(d)]_vars

\* The error an invocation of the process handler meets before it has results
\* to persist, from the object its event names
ComputeError(e) ==
    CASE s3[e.s3Key].kind = "missing" -> Some("NoSuchKey")
      [] s3[e.s3Key].kind = "nobody"  -> Some("No data found in S3 object")
      [] s3[e.s3Key].kind = "garbage" -> Some("Unexpected token in JSON")
      [] s3[e.s3Key].kind = "null"    -> Some("Cannot convert undefined or null to object")
      [] OTHER                        -> None

\* This step ends invocation i of the process handler, which failed before
\* persisting results
FailsBeforePersist(i) ==
    /\ proc[i].pc = "catch"
    /\ proc[i].failedAt = "compute"
    /\ proc'[i].pc = "done"

Rethrown(i) ==
    /\ proc'[i].outcome = "thrown"
    /\ IsSome(ComputeError(proc[i].ev))
    /\ proc'[i].thrown = ComputeError(proc[i].ev)

FailureRecorded(i) ==
    /\ table'[proc[i].ev.dataId].status = "PROCESSING_FAILED"
    /\ table'[proc[i].ev.dataId].processingError = ComputeError(proc[i].ev)
    /\ table'[proc[i].ev.dataId].processingResults = table[proc[i].ev.dataId].processingResults

\* C5 as stated: an invocation of the process handler that fails before
\* persisting results sets status PROCESSING_FAILED and processingError to the
\* error message, and rethrows the error.
C5_FailureAlwaysRecorded ==
    [][\A i \in ProcSlots : FailsBeforePersist(i) => FailureRecorded(i) /\ Rethrown(i)]_vars

\* C5: an invocation of the process handler that fails before persisting
\* results rethrows the error; it sets status PROCESSING_FAILED and
\* processingError to the error message when the update that records the
\* failure succeeds, and leaves the table as it was when that update fails.
C5_FailureRecordedWhenStoreAccepts ==
    [][\A i \in ProcSlots :
          FailsBeforePersist(i)
          => /\ Rethrown(i)
             /\ IF proc'[i].errorSaved THEN FailureRecorded(i) ELSE table' = table]_vars

\* One invocation failed on an object without Body and recorded the failure,
\* another failed the same way and could not record it
C5_Witness ==
    /\ proc["p1"].pc = "done" /\ proc["p1"].failedAt = "compute" /\ proc["p1"].errorSaved
    /\ proc["p1"].thrown = Some("No data found in S3 object")
    /\ proc["p2"].pc = "done" /\ proc["p2"].failedAt = "compute" /\ ~proc["p2"].errorSaved
    /\ proc["p2"].outcome = "thrown"
    /\ table["d1"].status = "PROCESSING_FAILED"
    /\ table["d1"].processingError = Some("No data found in S3 object")

\* The error of the step at which an invocation failed
OriginalError(e, failedAt) ==
    CASE failedAt = "compute" -> ComputeError(e)
      [] failedAt = "read"    -> IF IsSome(ComputeError(e)) THEN ComputeError(e)
                                 ELSE Some("NoSuchKey")
      [] failedAt = "update"  -> Some("DynamoDB unavailable")
      [] failedAt = "emit"    -> Some("EventBridge unavailable")
      [] OTHER                -> None

EndsByRethrow(p) ==
    /\ p.pc \in {"catch", "done"} <=> p.failedAt # "none" \/ p.outcome = "returned"
    /\ p.pc = "catch" => p.failedAt # "none" /\ p.error = OriginalError(p.ev, p.failedAt)
    /\ p.pc = "done" /\ p.failedAt # "none"
       => /\ p.outcome = "thrown"
          /\ IsSome(p.thrown)
          /\ p.thrown = OriginalError(p.ev, p.failedAt)

\* C6: every invocation of the process handler or of the insights handler on
\* a bus event in which a step throws ends by rethrowing that step's error,
\* also when the update that records the error fails.
C6_FailuresRethrown ==
    /\ \A i \in ProcSlots : EndsByRethrow(proc[i])
    /\ \A i \in InsSlots : EndsByRethrow(ins[i])

\* Both handlers have rethrown an error they could not record on the item
C6_Witness ==
    /\ proc["p1"].pc = "done" /\ proc["p1"].failedAt = "emit"
    /\ proc["p1"].outcome = "thrown" /\ ~proc["p1"].errorSaved
    /\ ins["i1"].pc = "done" /\ ins["i1"].failedAt = "update"
    /\ ins["i1"].outcome = "thrown" /\ ~ins["i1"].errorSaved

\* C7: however many times the Uploaded event of an item is delivered, the
\* item's processingResults are those of the first delivery that persisted
\* them, which are the results of the unchanged payload.
C7_ReplayKeepsResults ==
    \A d \in DataIds :
        history.persisted[d] >= 1
        => /\ table[d].processingResults = history.firstResults[d]
           /\ table[d].processingResults =
                  Some(BuildProcessingResults(s3[Get(table[d].s3Key)].data))

\* Two deliveries of the Uploaded event of the scenario payload have persisted
C7_Witness ==
    /\ history.persisted["d1"] >= 2
    /\ s3[S3KeyOf("t1", "d1")] = S3Json(ScenarioPayload)
    /\ Get(table["d1"].processingResults)["recordCount"] = 2

\* C9 as stated: an invocation of the insights handler on a bus event whose
\* inference call fails does not fail.
C9_InferenceFailureNeverFails ==
    \A i \in InsSlots :
        ins[i].pc = "done" /\ ins[i].inferenceFailed => ins[i].outcome = "returned"

FallbackPersisted(i) ==
    /\ ins'[i].outcome = "returned"
    /\ IsSome(table'[ins[i].ev.dataId].aiInsights)
    /\ Get(table'[ins[i].ev.dataId].aiInsights).confidence = 60
    /\ Get(table'[ins[i].ev.dataId].aiInsights).modelUsed = "fallback-rule-based"
    /\ Get(table'[ins[i].ev.dataId].aiInsights).summary =
           "Fallback analysis for data with "
           \o ToString(ins[i].ev.processingResults["recordCount"]) \o " records"
    /\ table'[ins[i].ev.dataId].status = "INSIGHTS_GENERATED"
    /\ table'[ins[i].ev.dataId].insightsGeneratedAt = Some(now)

\* C9: when the inference call of an invocation of the insights handler on a
\* bus event fails, the invocation goes on to the update as with a successful
\* inference; when the update succeeds it persists the rule-based aiInsights
\* with confidence 0.6 and status INSIGHTS_GENERATED and returns, and when
\* the update fails the invocation rethrows that failure.
C9_FallbackPersistedWhenStoreAccepts ==
    /\ [](\A i \in InsSlots : ins[i].inferenceFailed => ins[i].pc \in {"update", "catch", "done"})
    /\ [][\A i \in InsSlots :
             ins[i].pc = "update" /\ ins[i].inferenceFailed /\ ins'[i] # ins[i]
             => IF ins'[i].pc = "done"
                THEN FallbackPersisted(i)
                ELSE ins'[i].pc = "catch" /\ ins'[i].failedAt = "update" /\ table' = table]_vars

\* An invocation whose inference call failed has returned and the item holds
\* the fallback insights
C9_Witness ==
    /\ ins["i1"].pc = "done" /\ ins["i1"].inferenceFailed /\ ins["i1"].outcome = "returned"
    /\ table["d1"].status = "INSIGHTS_GENERATED"
    /\ Get(table["d1"].aiInsights).confidence = 60
    /\ Get(table["d1"].aiInsights).summary = "Fallback analysis for data with 2 records"

\* ------------------------------------------------------------------------
\* Properties of the queries (SpecQueries)
\* ------------------------------------------------------------------------
\* C2: in every reachable state the stored insight history of every item has
\* at most 10 entries, for any interleaving of the queries on the item.
C2_HistoryAtMostTen == \A d \in DataIds : Len(table[d].insights) <= 10

\* Two queries were saved on a history of 9 entries and 10 entries are stored
C2_Witness ==
    /\ Len(history.baseHistory["d1"]) = 9
    /\ Len(history.queryLog["d1"]) = 2
    /\ Len(table["d1"].insights) = 10

\* The n newest entries of a sequence, oldest first
Newest(seq, n) ==
    LET kept == IF Len(seq) < n THEN Len(seq) ELSE n
    IN  [k \in 1..kept |-> seq[Len(seq) - kept + k]]

\* All the entries of the successful queries on the item, in the order of
\* the queries
AllQueries(d) == history.baseHistory[d] \o history.queryLog[d]

StoredIsNewestTen ==
    \A d \in DataIds :
        ~history.overlapped[d] => table[d].insights = Newest(AllQueries(d), 10)

\* This step is the successful end of query i
QuerySucceeds(i) == api[i].pc = "save" /\ api'[i].resp.statusCode = 200

ReturnsWhatItStored(i) ==
    LET stored == table'[Get(api[i].req.dataId)].insights
    IN  /\ api'[i].pc = "done"
        /\ api'[i].resp.insightHistory = stored
        /\ Len(stored) >= 1
        /\ stored[Len(stored)].prompt =
               (IF api[i].req.prompt \in {None, Some("")} THEN "General insights"
                ELSE Get(api[i].req.prompt))
        /\ stored[Len(stored)].response = api'[i].resp.insights
        /\ stored[Len(stored)].userId = api[i].req.userId
        /\ \A k \in 1..(Len(stored) - 1) : stored[k].timestamp <= stored[k + 1].timestamp

\* C3: after successful queries on an item that do not overlap, the stored
\* history is the 10 newest query entries, oldest first; the last stored
\* entry of a successful query carries its prompt ("General insights"
\* without one) and the response returned to the caller, and the history
\* the query returns is the sequence it stored.
C3_HistoryIsNewestQueries ==
    /\ []StoredIsNewestTen
    /\ [][\A i \in ApiSlots : QuerySucceeds(i) => ReturnsWhatItStored(i)]_vars

\* The eleventh query on an item, a general one, has succeeded without overlap
C3_Witness ==
    /\ ~history.overlapped["d1"]
    /\ Len(AllQueries("d1")) = 11
    /\ api["a1"].pc = "done"
    /\ api["a1"].resp.statusCode = 200
    /\ api["a1"].req.prompt = None
    /\ Len(table["d1"].insights) = 10
    /\ table["d1"].insights[10].prompt = "General insights"
    /\ table["d1"].insights[10].response = api["a1"].resp.insights
    /\ table["d1"].insights[1] = EarlierEntry(2)

\* C8 as stated: a query that passed the parameter checks, the limiter and
\* the lookups and whose inference call failed returns a success result.
C8_InferenceFailureAlwaysSucceeds ==
    \A i \in ApiSlots :
        api[i].pc = "done" /\ api[i].inferenceFailed => api[i].resp.statusCode = 200

\* The fallback response for the scenario record: 2 records, quality score 100
ScenarioFallback(prompt) ==
    IF prompt = Some(ScenarioPrompt)
    THEN "Analysis completed with fallback method. Question: total amount? - Data contains 2 records with quality score of 100. Consider reviewing the data for business opportunities and potential improvements."
    ELSE "Analysis completed with fallback method. General analysis - Data contains 2 records with quality score of 100. Consider reviewing the data for business opportunities and potential improvements."

FallbackAnswered(i) ==
    LET stored == table'[Get(api[i].req.dataId)].insights
    IN  /\ api'[i].resp.statusCode = 200
        /\ api'[i].resp.error = ""
        /\ api'[i].resp.insights = ScenarioFallback(api[i].req.prompt)
        /\ Len(stored) >= 1
        /\ stored[Len(stored)].response = ScenarioFallback(api[i].req.prompt)
        /\ api'[i].resp.insightHistory = stored

SaveRefused(i) ==
    /\ api'[i].resp.statusCode = 500
    /\ api'[i].resp.error = "Internal server error"
    /\ table' = table

\* C8: a query that passed the parameter checks, the limiter and the lookups
\* and whose inference call failed goes on to save the fallback text, which
\* is fixed by the prompt and the record's recordCount and qualityScore;
\* when the save succeeds the query answers 200 with that text and the text
\* is the last entry of the stored history, and when the save fails it
\* answers 500 and stores nothing.
C8_FallbackAnsweredWhenSaved ==
    /\ [](\A i \in ApiSlots :
             api[i].inferenceFailed
             => /\ api[i].pc \in {"save", "done"}
                /\ api[i].insights = ScenarioFallback(api[i].req.prompt))
    /\ [][\A i \in ApiSlots :
             api[i].pc = "save" /\ api[i].inferenceFailed /\ api'[i] # api[i]
             => /\ api'[i].pc = "done"
                /\ FallbackAnswered(i) \/ SaveRefused(i)]_vars

\* The scenario: the first query on the record, "total amount?", met an
\* inference failure and was answered with the fallback text
C8_Witness ==
    /\ api["a1"].pc = "done"
    /\ api["a1"].inferenceFailed
    /\ api["a1"].req.prompt = Some(ScenarioPrompt)
    /\ api["a1"].resp.statusCode = 200
    /\ api["a1"].resp.insights = ScenarioFallback(Some(ScenarioPrompt))
    /\ Len(table["d1"].insights) = 1
    /\ table["d1"].insights[1].response = api["a1"].resp.insights

\* ------------------------------------------------------------------------
\* More properties of the rate limiter (SpecLimiter)
\* ------------------------------------------------------------------------
\* k is the least integer with k * 1000 >= ms
IsCeilOfThousandths(k, ms) == (k - 1) * 1000 < ms /\ ms <= k * 1000

\* This step answers request api'[i].req with 429
RejectedByLimiter(i) == ReachesLimiter(i) /\ api'[i].resp.statusCode = 429

RetryAfterIsCeil(i) ==
    LET bucket == Get(rateLimitStore[api'[i].req.userId])
        resp == api'[i].resp
    IN  /\ now < bucket.resetTime
        /\ bucket.resetTime <= now + 60000
        /\ IsCeilOfThousandths(resp.retryAfter, bucket.resetTime - now)
        /\ resp.retryAfterHeader = ToString(resp.retryAfter)
        /\ resp.retryAfter \in 1..60

\* C11: every 429 answer carries, in the body and in the Retry-After header,
\* ceil((resetTime - now) / 1000); the call is rejected only while
\* now < resetTime <= now + 60000, so the value is between 1 and 60.
C11_RetryAfterIsCeiling ==
    [][\A i \in ApiSlots : RejectedByLimiter(i) => RetryAfterIsCeil(i)]_vars

\* A call was rejected 1 ms before the end of the window: retry after 1 s
C11_Witness ==
    /\ api["a1"].pc = "done"
    /\ api["a1"].resp.statusCode = 429
    /\ Get(rateLimitStore[api["a1"].req.userId]).resetTime - now = 1
    /\ api["a1"].resp.retryAfter = 1
    /\ api["a1"].resp.retryAfterHeader = "1"

\* ------------------------------------------------------------------------
\* Properties of the API handler (SpecGateway)
\* ------------------------------------------------------------------------
\* This step starts request api'[i].req
Starts(i) == api[i].pc \in {"idle", "done"} /\ api'[i] # api[i]

TooLong(prompt) == prompt # None /\ Len(Get(prompt)) > 100

Invalid(req) == req.dataId \in {None, Some("")} \/ TooLong(req.prompt)

RejectedUntouched(i) ==
    /\ api'[i].pc = "done"
    /\ api'[i].resp.statusCode = 400
    /\ api'[i].resp.error =
           (IF api'[i].req.dataId \in {None, Some("")}
            THEN "Missing required parameter: dataId"
            ELSE "Prompt is too long. Maximum length is 100 characters.")
    /\ rateLimitStore' = rateLimitStore
    /\ history'.admits = history.admits
    /\ table' = table
    /\ s3' = s3

PassesValidation(i) ==
    /\ api'[i].resp.statusCode # 400
    /\ api'[i].pc = "scan" \/ api'[i].resp.statusCode = 429

\* No request being processed, and no stored entry, has an invalid dataId or
\* a prompt other than the one sent in full
OnlyValidProcessed ==
    /\ \A i \in ApiSlots :
          api[i].pc \in {"scan", "save"} \/ (api[i].pc = "done" /\ api[i].resp.statusCode # 400)
          => ~Invalid(api[i].req)
    /\ \A d \in DataIds : \A k \in 1..Len(table[d].insights) :
          table[d].insights[k].prompt \in {"General insights", ExactPrompt}

\* C12: a request without dataId or with a prompt of more than 100 characters
\* is answered 400 in the step that starts it, which changes no rate-limit
\* bucket and no record and leads to no lookup, inference or write; a request
\* with a dataId and a prompt of exactly 100 characters passes the checks, and
\* no prompt is processed or stored truncated.
C12_InvalidRejectedFirst ==
    /\ []OnlyValidProcessed
    /\ [][\A i \in ApiSlots :
             Starts(i) => IF Invalid(api'[i].req) THEN RejectedUntouched(i)
                          ELSE PassesValidation(i)]_vars

\* A prompt of 100 characters was answered and stored; the next request, with
\* 101 characters, was answered 400 and the bucket still counts one call
C12_Witness ==
    /\ api["a1"].pc = "done"
    /\ api["a1"].req.prompt = Some(LongPrompt)
    /\ api["a1"].resp.statusCode = 400
    /\ history.calls = 2
    /\ rateLimitStore["u1"] = Some(Bucket(1, RATE_LIMIT_WINDOW_MS))
    /\ Len(table["d1"].insights) = 1
    /\ table["d1"].insights[1].prompt = ExactPrompt

\* A request answered 429 has ended without lookup, inference or history
RejectedDidNoWork ==
    \A i \in ApiSlots :
        api[i].resp.statusCode = 429
        => /\ api[i].pc = "done"
           /\ ~api[i].admitted
           /\ api[i].tenantId = ""
           /\ api[i].insights = ""
           /\ api[i].updatedInsights = <<>>

\* Whoever looks up or writes has been admitted by the limiter
WorkOnlyWhenAdmitted ==
    /\ \A i \in ApiSlots :
          api[i].pc \in {"scan", "save"} /\ api'[i] # api[i] => api[i].admitted
    /\ table' # table => \E i \in ApiSlots : api[i].pc = "save" /\ api[i].admitted
    /\ s3' = s3

\* C13: a request answered 429 is answered in the step that starts it, before
\* the Scan: it makes no lookup, fetch, inference or write, and that step
\* leaves every record as it was.
C13_RejectedBeforeWork ==
    /\ []RejectedDidNoWork
    /\ [][WorkOnlyWhenAdmitted]_vars
    /\ [][\A i \in ApiSlots :
             Starts(i) /\ api'[i].resp.statusCode = 429
             => table' = table /\ s3' = s3 /\ rateLimitStore' = rateLimitStore]_vars

\* Six queries on d1 were stored and the seventh was answered 429
C13_Witness ==
    /\ api["a1"].pc = "done"
    /\ api["a1"].resp.statusCode = 429
    /\ api["a1"].req.dataId = Some("d1")
    /\ history.calls = 7
    /\ Len(table["d1"].insights) = 6

\* This step ends the lookup of request i with 404 "File not found"
AnswersFileNotFound(i) ==
    /\ api[i].pc = "scan"
    /\ api'[i].pc = "done"
    /\ api'[i].resp.statusCode = 404
    /\ api'[i].resp.error = "File not found"

\* C14: the lookup of an admitted request finds the record with the requested
\* dataId whenever the table holds one, whatever other records it holds: it
\* answers 404 "File not found" only when no record has that dataId.
C14_ExistingRecordIsFound ==
    [][\A i \in ApiSlots :
          AnswersFileNotFound(i) => ~table[Get(api[i].req.dataId)].present]_vars

\* The item differs from what it was in insights and lastInsightAt at most
SameButHistory(was, is) ==
    /\ DOMAIN is = DOMAIN was
    /\ \A f \in DOMAIN was \ {"insights", "lastInsightAt"} : is[f] = was[f]

\* Slot i is writing the record it located
Writes(i, d) == api[i].pc = "save" /\ api[i].req.dataId = Some(d) /\ api'[i].pc = "done"

\* C15: no step of a query changes status, processingResults, aiInsights,
\* processingError or any other field than insights and lastInsightAt of a
\* record, and only the record located by a query at its save is written.
C15_QueriesWriteHistoryOnly ==
    [][\A d \in DataIds :
          /\ SameButHistory(table[d], table'[d])
          /\ table'[d] # table[d] => \E i \in ApiSlots : Writes(i, d)]_vars

\* Queries were stored on a record with generated insights and on a record
\* that was only uploaded, and both kept their status
C15_Witness ==
    /\ Len(table["d1"].insights) >= 1
    /\ table["d1"].lastInsightAt # None
    /\ table["d1"].status = "INSIGHTS_GENERATED"
    /\ table["d1"].aiInsights # None
    /\ table["d1"].processingResults = Some(ScenarioResults)
    /\ Len(table["d2"].insights) >= 1
    /\ table["d2"].status = "UPLOADED"
    /\ table["d2"].processingResults = None

\* ------------------------------------------------------------------------
\* More properties of the pipeline (Spec)
\* ------------------------------------------------------------------------
\* Invocation i of the process handler has returned without error
Succeeded(i) == proc[i].pc = "done" /\ proc[i].outcome = "returned"

\* A DataProcessed event on the bus that names the record of invocation i
EmittedFor(i) ==
    \E e \in processedBus :
        /\ e.tenantId = proc[i].ev.tenantId
        /\ e.dataId = proc[i].ev.dataId
        /\ e.s3Key = proc[i].ev.s3Key

\* C16 as stated: every invocation of the process handler that succeeds has
\* emitted a DataProcessed event.
C16_SuccessAlwaysEmits == \A i \in ProcSlots : Succeeded(i) => EmittedFor(i)

\* The event names a record whose PROCESSED status and results have been
\* persisted, and carries that record's tenantId, dataId, key and results
CarriesPersisted(e) ==
    /\ history.persisted[e.dataId] >= 1
    /\ table[e.dataId].present
    /\ e.tenantId = table[e.dataId].tenantId
    /\ Some(e.s3Key) = table[e.dataId].s3Key
    /\ Some(e.processingResults) = table[e.dataId].processingResults
    /\ Some(e.processingResults) = history.firstResults[e.dataId]
    /\ table[e.dataId].status \in {"PROCESSED", "PROCESSING_FAILED", "INSIGHTS_GENERATED"}

EmitsAfterPersist ==
    /\ \A e \in processedBus : CarriesPersisted(e)
    /\ \A i \in ProcSlots :
          proc[i].pc = "emit"
          => table[proc[i].ev.dataId].processingResults = Some(proc[i].results)
    /\ \A i \in ProcSlots : Succeeded(i) => (ENABLE_AI_INSIGHTS <=> EmittedFor(i))
    /\ ~ENABLE_AI_INSIGHTS => processedBus = {}

\* This step of invocation i puts an event on the bus: the invocation has
\* written status PROCESSED and its results before
EmitStep(i) ==
    proc[i].pc = "emit" /\ proc'[i].pc = "done"
    => /\ history.persisted[proc[i].ev.dataId] >= 1
       /\ processedBus' = processedBus \cup
              {[tenantId |-> proc[i].ev.tenantId, dataId |-> proc[i].ev.dataId,
                s3Key |-> proc[i].ev.s3Key, timestamp |-> proc[i].ev.timestamp,
                processedAt |-> proc[i].processedAt,
                processingResults |-> Get(table[proc[i].ev.dataId].processingResults)]}

\* C16: where ENABLE_AI_INSIGHTS is 'true', every invocation of the process
\* handler that succeeds has emitted a DataProcessed event; an event is
\* emitted only after the invocation has persisted status PROCESSED and the
\* results, and carries the record's tenantId, dataId, key and exactly the
\* persisted results.  Where the setting is off, a successful invocation
\* emits nothing.
C16_EmitsPersistedWhenEnabled ==
    /\ []EmitsAfterPersist
    /\ [][\A i \in ProcSlots : EmitStep(i)]_vars

\* An invocation has succeeded and its event is on the bus
C16_Witness ==
    /\ ENABLE_AI_INSIGHTS
    /\ Succeeded("p1")
    /\ EmittedFor("p1")
    /\ table["d1"].status = "PROCESSED"
    /\ \E e \in processedBus : e.processingResults["recordCount"] = 2

\* This step ends invocation i of the insights handler on a bus event, which
\* failed before persisting aiInsights
InsightsFails(i) == ins[i].pc = "catch" /\ ins'[i].pc = "done"

InsightsRethrown(i) ==
    /\ ins[i].failedAt \in {"read", "update"}
    /\ ins'[i].outcome = "thrown"
    /\ ins'[i].thrown = (IF ins[i].failedAt = "read" THEN Some("NoSuchKey")
                         ELSE Some("DynamoDB unavailable"))

StatusAndInsightsKept(i) ==
    /\ table'[ins[i].ev.dataId].status = table[ins[i].ev.dataId].status
    /\ table'[ins[i].ev.dataId].aiInsights = table[ins[i].ev.dataId].aiInsights

InsightsErrorRecorded(i) ==
    /\ table'[ins[i].ev.dataId].insightsError = ins'[i].thrown
    /\ table'[ins[i].ev.dataId].insightsError # None

\* C17 as stated: an invocation of the insights handler on a bus event that
\* fails before persisting aiInsights leaves status unchanged, records the
\* error message in insightsError, does not write aiInsights and rethrows.
C17_InsightsFailureAlwaysRecorded ==
    [][\A i \in InsSlots :
          InsightsFails(i)
          => StatusAndInsightsKept(i) /\ InsightsErrorRecorded(i) /\ InsightsRethrown(i)]_vars

\* C17: an invocation of the insights handler on a bus event that fails
\* before persisting aiInsights rethrows the error and leaves status and
\* aiInsights unchanged; it records the error message in insightsError when
\* the update that records it succeeds, and leaves the table as it was when
\* that update fails.
C17_InsightsFailureRecordedWhenStoreAccepts ==
    [][\A i \in InsSlots :
          InsightsFails(i)
          => /\ InsightsRethrown(i)
             /\ StatusAndInsightsKept(i)
             /\ IF ins'[i].errorSaved THEN InsightsErrorRecorded(i) ELSE table' = table]_vars

\* One invocation found the object gone and recorded that; another could
\* neither write the insights nor record the failure
C17_Witness ==
    /\ ins["i1"].pc = "done" /\ ins["i1"].failedAt = "read" /\ ins["i1"].errorSaved
    /\ ins["i1"].outcome = "thrown"
    /\ ins["i2"].pc = "done" /\ ins["i2"].failedAt = "update" /\ ~ins["i2"].errorSaved
    /\ ins["i2"].outcome = "thrown"
    /\ table["d1"].status = "PROCESSED"
    /\ table["d1"].insightsError = Some("NoSuchKey")
    /\ table["d1"].aiInsights = None

\* ------------------------------------------------------------------------
\* Properties of the quality score (SpecScoring)
\* ------------------------------------------------------------------------
\* The payload of record d, and its persisted qualityScore
PayloadOf(d) == s3[Get(table[d].s3Key)].data

Scored(d) == table[d].present /\ table[d].processingResults # None

ScoreOf(d) == Get(table[d].processingResults)["qualityScore"]

\* C19: for every payload shape the persisted qualityScore is an integer
\* between 0 and 100.
C19_ScoreInRange == \A d \in DataIds : Scored(d) => ScoreOf(d) \in 0..100

\* An array of 1001 items without fields has the lowest score, a payload
\* with a name the highest
C19_Witness ==
    /\ Scored("d1") /\ PayloadOf("d1") = Arr(<<ItemNoFields>>, 1000) /\ ScoreOf("d1") = 60
    /\ Scored("d2") /\ PayloadOf("d2") = ScenarioPayload /\ ScoreOf("d2") = 100

\* Both are arrays of at most 1000 items, the first empty, the second not
EmptyAgainstFilled(d, e) ==
    /\ Scored(d) /\ PayloadOf(d).isArray /\ ArrLen(PayloadOf(d)) = 0
    /\ Scored(e) /\ PayloadOf(e).isArray /\ ArrLen(PayloadOf(e)) \in 1..1000

\* C20: an empty array has a strictly lower qualityScore than every
\* non-empty array, whether its items have an id, name or title, have other
\* fields only, or have no fields.
C20_EmptyScoresLower ==
    \A d, e \in DataIds : EmptyAgainstFilled(d, e) => ScoreOf(d) < ScoreOf(e)

\* ------------------------------------------------------------------------
\* Properties of the parsed insights (SpecInsights)
\* ------------------------------------------------------------------------
AllFieldsFilled(insights) ==
    /\ DOMAIN insights = {"summary", "keyInsights", "recommendations", "riskFactors",
                          "opportunities", "dataQualityNotes", "modelUsed", "confidence"}
    /\ insights.summary # ""
    /\ insights.modelUsed # ""
    /\ insights.confidence > 0
    /\ \A f \in {"keyInsights", "recommendations", "riskFactors", "opportunities",
                 "dataQualityNotes"} : Len(insights[f]) > 0

\* C18: whatever the response text of the model, every field of the insights
\* made from it is defined and non-empty.
C18_EveryFieldFilled ==
    /\ \A i \in InsSlots : AllFieldsFilled(ins[i].insights)
    /\ \A d \in DataIds : table[d].aiInsights # None => AllFieldsFilled(Get(table[d].aiInsights))

\* ------------------------------------------------------------------------
\* Properties of requests in flight together (SpecConcurrent)
\* ------------------------------------------------------------------------
AtMost6(k) == IF k < 6 THEN k ELSE 6

\* C21: of k requests of one user started in one window, in any interleaving
\* with the requests still in flight, exactly min(k, 6) are admitted and the
\* bucket's count is min(k, 6): no increment is lost.
C21_NoLostIncrement ==
    /\ history.admits["u1"] = AtMost6(history.calls)
    /\ history.calls >= 1 => rateLimitStore["u1"] = Some(Bucket(AtMost6(history.calls), 60000))
    /\ Cardinality({i \in ApiSlots : api[i].pc = "scan"}) <= history.admits["u1"]

\* The sixth request was admitted and is in flight when the seventh is
\* answered 429
C21_Witness ==
    /\ history.calls = 7
    /\ api["a1"].pc = "scan"
    /\ api["a2"].pc = "done" /\ api["a2"].resp.statusCode = 429
    /\ rateLimitStore["u1"] = Some(Bucket(6, 60000))

\* ------------------------------------------------------------------------
\* Properties of the pipeline interleaved with a query (SpecMixed)
\* ------------------------------------------------------------------------
\* The record holds what the stages persisted and every entry the queries
\* appended
HoldsBoth(d) ==
    /\ history.persisted[d] >= 1 => table[d].processingResults = history.firstResults[d]
    /\ table[d].insights = Newest(AllQueries(d), 10)
    /\ table[d].status = "INSIGHTS_GENERATED" => table[d].aiInsights # None

\* A write of a stage leaves the history alone, a write of a query leaves
\* what the stages wrote alone
StageWrite(d) ==
    \/ \E i \in ProcSlots : proc[i].pc \in {"update", "catch"} /\ proc'[i] # proc[i]
    \/ \E i \in InsSlots : ins[i].pc \in {"update", "catch"} /\ ins'[i] # ins[i]

WritesApart(d) ==
    /\ StageWrite(d)
       => /\ table'[d].insights = table[d].insights
          /\ table'[d].lastInsightAt = table[d].lastInsightAt
    /\ (\E i \in ApiSlots : api[i].pc = "save" /\ api'[i] # api[i])
       => /\ table'[d].status = table[d].status
          /\ table'[d].processingResults = table[d].processingResults
          /\ table'[d].aiInsights = table[d].aiInsights
          /\ table'[d].processedAt = table[d].processedAt

\* C22: in every interleaving of an invocation of the process handler or of
\* the insights handler on a bus event with a query on the same record, the
\* stage's write keeps the query's history entry and the query's write
\* keeps the stage's status, processingResults and aiInsights, so the record
\* holds both.
C22_DifferentAttributesKept ==
    /\ [](\A d \in DataIds : HoldsBoth(d))
    /\ [][\A d \in DataIds : WritesApart(d)]_vars

\* A query read the record when it was only uploaded and stored its entry
\* after the stages had written; the record holds the results, the insights
\* and the entry
C22_Witness ==
    /\ history.crossed["d1"]
    /\ api["a1"].pc = "done" /\ api["a1"].resp.statusCode = 200
    /\ api["a1"].seenStatus = "UPLOADED"
    /\ table["d1"].status = "INSIGHTS_GENERATED"
    /\ table["d1"].processingResults = Some(ScenarioResults)
    /\ table["d1"].aiInsights # None
    /\ Len(table["d1"].insights) = 1

\* ------------------------------------------------------------------------
\* Overlapping queries (SpecQueries)
\* ------------------------------------------------------------------------
Entries(seq) == {seq[k] : k \in 1..Len(seq)}

\* The entry of a successful query is missing from the stored history
\* although fewer than 10 entries were appended after it
LostUpdate(d) ==
    \E k \in 1..Len(history.queryLog[d]) :
        /\ Len(history.queryLog[d]) - k < 10
        /\ history.queryLog[d][k] \notin Entries(table[d].insights)

\* The UpdateCommand stores the history computed from the item the Scan
\* returned, whatever was stored since
WritesWhatItRead(i) ==
    (api[i].pc = "save" /\ api'[i].resp.statusCode = 200)
    => table'[Get(api[i].req.dataId)].insights = api[i].updatedInsights

\* C23: a query stores the history it computed from the item it read, so
\* two queries on one item whose read-then-write steps overlap may lose an
\* update: both return success with saved: true and the stored history
\* holds the entry of only one of them, with fewer than 10 entries appended
\* afterwards; without an overlap no entry is lost.
C23_OverlapMayLoseUpdate ==
    /\ [](\A d \in DataIds : LostUpdate(d) => history.overlapped[d])
    /\ [][\A i \in ApiSlots : WritesWhatItRead(i)]_vars

\* Both queries on the item with an empty history returned success and
\* their own entry, and the stored history is the second writer's entry only
C23_Witness ==
    /\ history.baseHistory["d1"] = <<>>
    /\ \A i \in ApiSlots :
          /\ api[i].pc = "done"
          /\ api[i].resp.statusCode = 200
          /\ api[i].resp.saved
          /\ Len(api[i].resp.insightHistory) = 1
    /\ Len(history.queryLog["d1"]) = 2
    /\ history.queryLog["d1"][1] # history.queryLog["d1"][2]
    /\ table["d1"].insights = <<history.queryLog["d1"][2]>>
    /\ LostUpdate("d1")

\* ------------------------------------------------------------------------
\* The results of the API handler (SpecGateway)
\* ------------------------------------------------------------------------
IsSuccess(r) ==
    /\ r.statusCode = 200
    /\ r.saved
    /\ r.insights # ""
    /\ Len(r.insightHistory) >= 1

IsRateLimitError(r) ==
    r.statusCode = 429 /\ r.error = "Rate limit exceeded" /\ r.retryAfter >= 1

IsNotFoundError(r) ==
    r.statusCode = 404 /\ r.error \in {"File not found", "Data not found in S3"}

IsValidationError(r) ==
    /\ r.statusCode = 400
    /\ r.error \in {"Missing required parameter: dataId",
                    "Prompt is too long. Maximum length is 100 characters.",
                    "No S3 key found for this file"}

IsInternalError(r) ==
    r.statusCode = 500 /\ r.error = "Internal server error" /\ r.message # ""

Returned(a) == a.pc = "done"

\* C24 as stated: every invocation ends with a success result, a
\* RateLimitError, a NotFoundError or a ValidationError, also when a store
\* fails.
C24_OneOfFourResults ==
    \A i \in ApiSlots :
        Returned(api[i])
        => \/ IsSuccess(api[i].resp)
           \/ IsRateLimitError(api[i].resp)
           \/ IsNotFoundError(api[i].resp)
           \/ IsValidationError(api[i].resp)

\* An invocation is idle, after the limiter, before its save, or has returned
InHandler(a) == a.pc \in {"idle", "scan", "save", "done"}

\* The internal error is the answer of the catch block: it ends an
\* invocation that was at its lookups or at its save
InternalOnlyAfterAdmission(i) ==
    (api'[i] # api[i] /\ Returned(api'[i]) /\ IsInternalError(api'[i].resp))
    => api[i].pc \in {"scan", "save"}

\* C24: every invocation ends by returning exactly one of a success result
\* with saved: true, a RateLimitError with retryAfterSeconds, a
\* NotFoundError, a ValidationError or, when the object store or the
\* metadata store fails after the call was admitted, an internal error
\* (500, "Internal server error", with the message of the failure); it
\* never raises to its caller.
C24_OneOfFiveResults ==
    /\ [](\A i \in ApiSlots :
            /\ InHandler(api[i])
            /\ Returned(api[i])
               => \/ IsSuccess(api[i].resp)
                  \/ IsRateLimitError(api[i].resp)
                  \/ IsNotFoundError(api[i].resp)
                  \/ IsValidationError(api[i].resp)
                  \/ IsInternalError(api[i].resp))
    /\ [][\A i \in ApiSlots : InternalOnlyAfterAdmission(i)]_vars

\* The GetObject of an admitted query on the existing record failed and the
\* query returned the internal error, after the limiter counted it
C24_Witness ==
    /\ Returned(api["a1"])
    /\ api["a1"].req.dataId = Some("d1")
    /\ api["a1"].admitted
    /\ api["a1"].resp = ServerError("NoSuchKey")
    /\ table["d1"].present

\* ------------------------------------------------------------------------
\* The failure updates (SpecMixed)
\* ------------------------------------------------------------------------
\* The two items agree on every attribute outside `written`
SameExcept(before, after, written) ==
    \A f \in (DOMAIN before) \ written : after[f] = before[f]

\* This step is the end of the catch block of process invocation i
ProcessFailureStep(i) == proc[i].pc = "catch" /\ proc'[i].pc = "done"

\* This step is the end of the catch block of insights invocation i
InsightsFailureStep(i) == ins[i].pc = "catch" /\ ins'[i].pc = "done"

ProcessFailureWrites(i) ==
    /\ \A d \in DataIds :
          SameExcept(table[d], table'[d],
                     IF d = proc[i].ev.dataId /\ proc'[i].errorSaved
                     THEN {"status", "processingError", "processedAt"} ELSE {})
    /\ proc'[i].errorSaved
       => /\ table'[proc[i].ev.dataId].status = "PROCESSING_FAILED"
          /\ table'[proc[i].ev.dataId].processingError = proc[i].error
          /\ table'[proc[i].ev.dataId].processedAt = Some(now)

InsightsFailureWrites(i) ==
    /\ \A d \in DataIds :
          SameExcept(table[d], table'[d],
                     IF d = ins[i].ev.dataId /\ ins'[i].errorSaved
                     THEN {"insightsError", "insightsGeneratedAt"} ELSE {})
    /\ ins'[i].errorSaved
       => /\ table'[ins[i].ev.dataId].insightsError = ins[i].error
          /\ table'[ins[i].ev.dataId].insightsGeneratedAt = Some(now)

\* C25: the failure update of the process handler writes only status,
\* processingError and processedAt and the failure update of the insights
\* handler on a bus event writes only insightsError and insightsGeneratedAt;
\* processingResults, aiInsights and the insights history stored before are
\* unchanged by any failure.
C25_FailureWritesOnlyItsFields ==
    [][/\ \A i \in ProcSlots : ProcessFailureStep(i) => ProcessFailureWrites(i)
       /\ \A i \in InsSlots : InsightsFailureStep(i) => InsightsFailureWrites(i)]_vars

\* A redelivered uploaded event failed after the record had been through
\* the pipeline and a query: the failure is recorded and the results, the
\* insights and the history are still there
C25_Witness ==
    /\ proc["p1"].pc = "done"
    /\ proc["p1"].errorSaved
    /\ table["d1"].status = "PROCESSING_FAILED"
    /\ table["d1"].processingError # None
    /\ table["d1"].processingResults = Some(ScenarioResults)
    /\ table["d1"].aiInsights # None
    /\ Len(table["d1"].insights) = 1

\* ------------------------------------------------------------------------
\* Progress of the pipeline (SpecLive)
\* ------------------------------------------------------------------------
Generated(d) == table[d].status = "INSIGHTS_GENERATED"

Has(item, f) == f \in DOMAIN item

\* The deductions for the sampled item
ItemDeductions(item) ==
    (IF ~Has(item, "id") /\ ~Has(item, "name") /\ ~Has(item, "title") THEN 10 ELSE 0)
    + (IF DOMAIN item = {} THEN 20 ELSE 0)

\* The sum of the applicable deductions; an empty array has no sampled item
Deductions(data) ==
    IF data.isArray
    THEN (IF ArrLen(data) = 0 THEN 20 ELSE 0)
         + (IF ArrLen(data) > 1000 THEN 10 ELSE 0)
         + (IF ArrLen(data) = 0 THEN 0 ELSE ItemDeductions(data.items[1]))
    ELSE ItemDeductions(data.items[1])

\* C27: the persisted qualityScore is max(0, 100 - d), d the sum of the
\* applicable deductions: 20 for an array of zero records, 10 for an array
\* of more than 1000 records, 10 when the sampled item has none of id, name
\* and title, 20 when it has zero fields; a 2-record array whose items have
\* a name scores 100.
C27_ScoreIsHundredMinusDeductions ==
    \A d \in DataIds :
        Scored(d) => /\ ScoreOf(d) = Max0(100 - Deductions(PayloadOf(d)))
                     /\ PayloadOf(d) = ScenarioPayload => ScoreOf(d) = 100

\* ------------------------------------------------------------------------
\* The persisted metrics (SpecScoring)
\* ------------------------------------------------------------------------
ResultsStored(d) == Get(table[d].processingResults)

\* The keys of the first element, of the object itself, or none
FieldsOf(data) ==
    IF ~data.isArray THEN DOMAIN data.items[1]
    ELSE IF ArrLen(data) = 0 THEN {}
    ELSE DOMAIN data.items[1]

\* C28: the persisted processingResults have recordCount equal to the array
\* length, or 1 for a single object, and extractedFields equal to the keys
\* of the first element of a non-empty array (never the array's indices),
\* the empty set for an empty array and the object's own keys for a single
\* object; what processData computes overrides the base value of the same
\* key.
C28_CountAndFieldsOfPayload ==
    \A d \in DataIds :
        Scored(d)
        => LET data == PayloadOf(d)
               stored == ResultsStored(d)
           IN  /\ stored["recordCount"] = (IF data.isArray THEN ArrLen(data) ELSE 1)
               /\ stored["extractedFields"] = FieldsOf(data)
               /\ (data.isArray /\ ArrLen(data) > 0)
                  => stored["extractedFields"] # ObjectKeys(data)
               /\ \A k \in DOMAIN processData(data) : stored[k] = processData(data)[k]

\* The 2-record scenario array and the empty array have been processed
C28_Witness ==
    /\ Scored("d1") /\ PayloadOf("d1") = ScenarioPayload
    /\ ResultsStored("d1")["recordCount"] = 2
    /\ ResultsStored("d1")["extractedFields"] = {"name", "amount"}
    /\ Scored("d2") /\ PayloadOf("d2") = EmptyArray
    /\ ResultsStored("d2")["recordCount"] = 0
    /\ ResultsStored("d2")["extractedFields"] = {}

\* ------------------------------------------------------------------------
\* A failure after the results were persisted (Spec)
\* ------------------------------------------------------------------------
\* Invocation i persisted the results and then failed to emit the event
FailedAfterPersist(i) == proc[i].pc = "catch" /\ proc[i].failedAt = "emit"

\* C29: status PROCESSING_FAILED is written only for failures before the
\* results are persisted: the catch block of an invocation that persisted
\* processingResults with status PROCESSED and then failed to emit the
\* processed event does not overwrite the status with PROCESSING_FAILED.
C29_EmitFailureKeepsStatus ==
    [][\A i \in ProcSlots :
          (FailedAfterPersist(i) /\ proc'[i].pc = "done")
          => /\ ~proc'[i].errorSaved
             /\ table'[proc[i].ev.dataId].status = table[proc[i].ev.dataId].status]_vars

\* ------------------------------------------------------------------------
\* The rate limiter across instances (SpecInstances)
\* ------------------------------------------------------------------------
\* The calls of the user counted in the bucket of instance k
CountIn(k, u) == IF MapOf(k)[u] = None THEN 0 ELSE Get(MapOf(k)[u]).count

RECURSIVE CountInAll(_, _)
CountInAll(n, u) == IF n = 0 THEN 0 ELSE CountInAll(n - 1, u) + CountIn(n, u)

\* A call changes the Map of the instance that serves it and no other
OwnBucketOnly(k) ==
    (MapOf(k)' # MapOf(k))
    => /\ k = lambdas.serving
       /\ lambdas' = lambdas
       /\ api["a1"].pc \in {"idle", "done"}

\* A call is rejected by the instance that serves it when that instance
\* has admitted 6 calls of the user, whatever the others have admitted
RejectedByOwnBucket ==
    (api["a1"].pc \in {"idle", "done"} /\ api'["a1"] # api["a1"])
    => (api'["a1"].pc = "done" /\ api'["a1"].resp.statusCode = 429)
       = (CountIn(lambdas.serving, "u1") = RATE_LIMIT_MAX_CALLS)

\* C30: the limiter is local to an instance of the lambda: each instance
\* counts the calls it serves in its own bucket, which no call served by
\* another instance changes, so within one window the instances admit at
\* most 6 calls of one user each, 6 * k together.
C30_LimitPerInstance ==
    /\ [](/\ \A k \in InstanceIds : CountIn(k, "u1") <= RATE_LIMIT_MAX_CALLS
          /\ history.admitted = CountInAll(MaxInstances, "u1")
          /\ history.admitted <= RATE_LIMIT_MAX_CALLS * MaxInstances)
    /\ [][RejectedByOwnBucket /\ \A k \in InstanceIds : OwnBucketOnly(k)]_vars

\* Every instance has admitted 6 calls of the user within the window, and
\* the next call is rejected
C30_Witness ==
    /\ now = 0
    /\ history.admitted = RATE_LIMIT_MAX_CALLS * MaxInstances
    /\ \A k \in InstanceIds : CountIn(k, "u1") = RATE_LIMIT_MAX_CALLS
    /\ api["a1"].pc = "done"
    /\ api["a1"].resp.statusCode = 429

\* ------------------------------------------------------------------------
\* Bursts at the end of a window (SpecBurst)
\* ------------------------------------------------------------------------
\* The calls in `times` made from `from` to `to`, both included
CallsWithin(times, from, to) ==
    Cardinality({k \in 1..Len(times) : times[k] >= from /\ times[k] <= to})

\* The most calls admitted in an interval of `length` milliseconds that
\* starts at an admitted call
MostAdmittedWithin(length) ==
    LET times == history.admitTimes
        counts == {CallsWithin(times, times[k], times[k] + length) : k \in 1..Len(times)}
    IN  IF counts = {} THEN 0 ELSE CHOOSE n \in counts : \A m \in counts : m <= n

\* The window of the bucket was opened by an admitted call, 60 seconds
\* before its windowResetAt
AnchoredAtFirstCall ==
    IsSome(rateLimitStore["u1"])
    => \E k \in 1..Len(history.admitTimes) :
          /\ history.admitTimes[k] + RATE_LIMIT_WINDOW_MS = Get(rateLimitStore["u1"]).resetTime
          /\ \A j \in 1..(k - 1) : history.admitTimes[j] < history.admitTimes[k]

\* The calls made after the window was opened and before its windowResetAt
LateAdmitted ==
    LET reset == Get(rateLimitStore["u1"]).resetTime
    IN  CallsWithin(history.admitTimes, reset - RATE_LIMIT_WINDOW_MS + 1, reset - 1)

LateRejected ==
    LET reset == Get(rateLimitStore["u1"]).resetTime
    IN  CallsWithin(history.rejectTimes, reset - RATE_LIMIT_WINDOW_MS + 1, reset - 1)

\* C31 as stated: six calls made less than 60 seconds before windowResetAt
\* are admitted (and six more at or after it: 12 within less than 60
\* seconds).
C31_SixAdmittedJustBeforeReset ==
    IsSome(rateLimitStore["u1"]) => (LateAdmitted + LateRejected <= 6 => LateRejected = 0)

\* C31: the window is fixed and anchored at the call that opened it, 60
\* seconds before windowResetAt, and that call is one of its 6: at most 5
\* more are admitted before windowResetAt and 6 at or just after it, so at
\* most 11 calls are admitted within an interval shorter than 60 seconds,
\* 12 within 60 seconds, and never more than 12 in any interval of 60
\* seconds.
C31_BurstAtWindowBoundary ==
    /\ AnchoredAtFirstCall
    /\ MostAdmittedWithin(RATE_LIMIT_WINDOW_MS) <= 2 * RATE_LIMIT_MAX_CALLS
    /\ MostAdmittedWithin(RATE_LIMIT_WINDOW_MS - 1) <= 2 * RATE_LIMIT_MAX_CALLS - 1
    /\ IsSome(rateLimitStore["u1"]) => LateAdmitted <= RATE_LIMIT_MAX_CALLS - 1

\* One call opened the window, 5 were admitted one millisecond before its
\* windowResetAt and a sixth rejected, and 6 were admitted at windowResetAt
C31_Witness ==
    /\ now = RATE_LIMIT_WINDOW_MS
    /\ Len(history.admitTimes) = 12
    /\ history.admitTimes[1] = 0
    /\ CallsWithin(history.admitTimes, RATE_LIMIT_WINDOW_MS - 1, RATE_LIMIT_WINDOW_MS - 1) = 5
    /\ CallsWithin(history.admitTimes, RATE_LIMIT_WINDOW_MS, RATE_LIMIT_WINDOW_MS) = 6
    /\ history.rejectTimes = <<RATE_LIMIT_WINDOW_MS - 1>>
    /\ MostAdmittedWithin(RATE_LIMIT_WINDOW_MS - 1) = 11
    /\ MostAdmittedWithin(RATE_LIMIT_WINDOW_MS) = 12

\* ------------------------------------------------------------------------
\* The fallback insights of two records (SpecTwins)
\* ------------------------------------------------------------------------
\* The last invocation for record d returned after a failed inference call
FellBack(d) ==
    LET i == ins[ServedBy(d)]
    IN  /\ i.pc = "done" /\ i.outcome = "returned" /\ i.inferenceFailed
        /\ i.ev.dataId = d

\* The records have the same processing results in their events and
\* payloads with different contents
SameMetricsOtherContents(d, e) ==
    /\ ins[ServedBy(d)].ev.processingResults = ins[ServedBy(e)].ev.processingResults
    /\ s3[ins[ServedBy(d)].ev.s3Key] # s3[ins[ServedBy(e)].ev.s3Key]

\* C32: two invocations of the insights handler on processed events with
\* equal processingResults and different payload contents, both with a
\* failing inference call, persist identical aiInsights, with modelUsed
\* 'fallback-rule-based' and confidence 0.6.
C32_FallbackDependsOnMetricsOnly ==
    \A d, e \in DataIds :
        (FellBack(d) /\ FellBack(e) /\ SameMetricsOtherContents(d, e))
        => /\ table[d].aiInsights = table[e].aiInsights
           /\ table[d].aiInsights # None
           /\ Get(table[d].aiInsights).modelUsed = "fallback-rule-based"
           /\ Get(table[d].aiInsights).confidence = FALLBACK_CONFIDENCE
           /\ Get(table[d].aiInsights).summary = "Fallback analysis for data with 2 records"

\* The scenario payload and its twin went through the pipeline with a
\* failing inference call each
C32_Witness ==
    /\ FellBack("d1") /\ FellBack("d2")
    /\ SameMetricsOtherContents("d1", "d2")
    /\ s3[ins["i1"].ev.s3Key] = S3Json(ScenarioPayload)
    /\ s3[ins["i2"].ev.s3Key] = S3Json(TwinPayload)
    /\ table["d1"].status = "INSIGHTS_GENERATED"
    /\ table["d2"].status = "INSIGHTS_GENERATED"
    /\ table["d1"].aiInsights = table["d2"].aiInsights

\* ------------------------------------------------------------------------
\* The prompts of the stored history (SpecPrompts)
\* ------------------------------------------------------------------------
\* The prompts among the choices that pass the length check
AcceptedPrompts ==
    {Get(p) : p \in {q \in PromptChoices : HasPrompt(q) /\ Len(Get(q)) <= 100}}

StoredPrompts == {table["d1"].insights[k].prompt : k \in 1..Len(table["d1"].insights)}

\* The entry that a successful query appends has the caller's prompt, or
\* "General insights" when the caller gave none or the empty string
AppendsItsPrompt ==
    \A i \in ApiSlots :
        QuerySucceeds(i) =>
            LET stored == table'[Get(api[i].req.dataId)].insights
                prompt == api[i].req.prompt
            IN  /\ Len(stored) = Len(table[Get(api[i].req.dataId)].insights) + 1
                /\ stored[Len(stored)].prompt =
                       (IF prompt = None \/ prompt = Some("") THEN "General insights"
                        ELSE Get(prompt))
                /\ IsSome(prompt) => Len(Get(prompt)) <= 100

\* C33: every entry stored in a record's insightHistory has a non-empty
\* prompt of at most 100 characters: the caller's prompt, which passed the
\* length check, or "General insights" when the prompt was absent or empty.
C33_StoredPromptsBounded ==
    /\ [](\A d \in DataIds : \A k \in 1..Len(table[d].insights) :
            LET p == table[d].insights[k].prompt
            IN  /\ p # ""
                /\ Len(p) <= 100
                /\ p \in AcceptedPrompts \cup {"General insights"})
    /\ [][AppendsItsPrompt]_vars

\* The history holds an entry of a query without prompt or with the empty
\* one and an entry with the prompt of 100 characters, and the query with
\* 101 characters has been refused
C33_Witness ==
    /\ StoredPrompts = {"General insights", ExactPrompt}
    /\ Len(table["d1"].insights) = 3
    /\ Len(ExactPrompt) = 100
    /\ api["a1"].pc = "done"
    /\ api["a1"].req.prompt = Some(LongPrompt)
    /\ api["a1"].resp.statusCode = 400

\* ------------------------------------------------------------------------
\* Status and the results of the stages (Spec)
\* ------------------------------------------------------------------------
\* A step that sets the status of d to `status` (from another one, or again)
\* is a step that gives the attribute `field` of d a value
WrittenTogether(d, status, field) ==
    (table'[d].status = status /\ table'[d] # table[d]) => table'[d][field] # None

\* The statuses are written with their results, and a written result stays
StatusWithResult ==
    \A d \in DataIds :
        /\ WrittenTogether(d, "PROCESSED", "processingResults")
        /\ WrittenTogether(d, "INSIGHTS_GENERATED", "aiInsights")
        /\ table[d].processingResults # None => table'[d].processingResults # None
        /\ table[d].aiInsights # None => table'[d].aiInsights # None

\* C34: for a record created by upload, status INSIGHTS_GENERATED implies
\* that aiInsights is present and status PROCESSED or INSIGHTS_GENERATED that
\* processingResults is present; status and result are written in one
\* update, and a processed event is on the bus only after the
\* processingResults of its record were persisted.
C34_StatusImpliesResult ==
    /\ [](\A d \in DataIds :
            /\ Generated(d) => table[d].aiInsights # None
            /\ table[d].status \in {"PROCESSED", "INSIGHTS_GENERATED"}
                   => table[d].processingResults # None)
    /\ [](\A e \in processedBus :
            /\ history.persisted[e.dataId] >= 1
            /\ table[e.dataId].processingResults # None)
    /\ [][StatusWithResult]_vars

\* The record has been uploaded, processed and given its insights, and a
\* later attempt of a stage has failed and recorded its error
C34_Witness ==
    /\ Generated("d1")
    /\ table["d1"].aiInsights # None
    /\ table["d1"].processingResults # None
    /\ table["d1"].insightsError # None
    /\ \E i \in ProcSlots : proc[i].pc = "done" /\ proc[i].outcome = "thrown"

\* ------------------------------------------------------------------------
\* The quota and the outcome of an admitted call (SpecGateway)
\* ------------------------------------------------------------------------
CountOf(u) == IF IsSome(rateLimitStore[u]) THEN Get(rateLimitStore[u]).count ELSE 0

\* This step ends the admitted invocation i, with whatever answer
EndsAdmitted(i) == api[i].pc \in {"scan", "save"} /\ api'[i].pc = "done"

\* The end of an admitted invocation, and its lookups, leave the Map as the
\* admission left it
OutcomeKeepsCount ==
    \A i \in ApiSlots :
        /\ api[i].pc \in {"scan", "save"} => rateLimitStore' = rateLimitStore
        /\ EndsAdmitted(i) =>
              /\ api'[i].admitted
              /\ api'[i].resp.statusCode \in {200, 400, 404, 500}
              /\ CountOf(api[i].req.userId)' >= 1

\* No step lowers the count of a bucket; a bucket is only replaced by the one
\* of a new window
NeverDecremented ==
    \A u \in UserIds :
        /\ IsSome(rateLimitStore[u]) => IsSome(rateLimitStore'[u])
        /\ (IsSome(rateLimitStore[u])
            /\ Get(rateLimitStore'[u]).resetTime = Get(rateLimitStore[u]).resetTime)
           => CountOf(u)' >= CountOf(u)

\* C35: an admitted on-demand call counts against the user's quota whatever
\* the outcome of the request: the count is incremented before the record
\* lookup, a request that ends with 404, 400 (no object key), 500 or 200 has
\* used one of the 6 calls of the window, and the count is never decremented.
C35_AdmittedCallCountsWhateverOutcome ==
    /\ [](CountOf("u1") = history.admitted /\ CountOf("u1") <= RATE_LIMIT_MAX_CALLS)
    /\ [](\A i \in ApiSlots : api[i].pc \in {"scan", "save"} =>
              api[i].admitted /\ CountOf(api[i].req.userId) >= 1)
    /\ [](Len(table["d1"].insights) + Len(table["d2"].insights) <= history.admitted)
    /\ [][OutcomeKeepsCount]_vars
    /\ [][NeverDecremented]_vars

\* Six calls were admitted and one of them succeeded, the other five ended
\* with 404 or 500; the seventh is refused
C35_Witness ==
    /\ CountOf("u1") = RATE_LIMIT_MAX_CALLS
    /\ history.admitted = 6
    /\ history.calls = 7
    /\ Len(table["d1"].insights) + Len(table["d2"].insights) = 1
    /\ api["a1"].pc = "done"
    /\ api["a1"].resp.statusCode = 429

\* ------------------------------------------------------------------------
\* What a call does to the buckets (SpecLimiter)
\* ------------------------------------------------------------------------
Caller(i) == api'[i].req.userId

Rejected(i) == api'[i].pc = "done" /\ api'[i].resp.statusCode = 429

\* A refused call leaves the caller's bucket as it was
RejectionKeepsBucket ==
    \A i \in ApiSlots :
        (ReachesLimiter(i) /\ Rejected(i))
        => /\ WindowOpen(Caller(i))
           /\ rateLimitStore'[Caller(i)] = rateLimitStore[Caller(i)]

\* A call admitted in an open window adds 1 to the count and keeps resetTime
AdmissionInWindowAddsOne ==
    \A i \in ApiSlots :
        (ReachesLimiter(i) /\ ~Rejected(i) /\ WindowOpen(Caller(i)))
        => /\ api'[i].pc = "scan"
           /\ rateLimitStore'[Caller(i)] =
                  Some(Bucket(Get(rateLimitStore[Caller(i)]).count + 1,
                              Get(rateLimitStore[Caller(i)]).resetTime))

\* No step moves the resetTime of a window that is open
WindowNotExtended ==
    \A u \in UserIds :
        WindowOpen(u) =>
            /\ IsSome(rateLimitStore'[u])
            /\ Get(rateLimitStore'[u]).resetTime = Get(rateLimitStore[u]).resetTime

\* C36: a rate-limit rejection leaves the user's bucket unchanged, an admitted
\* call inside an open window increments count by exactly 1 and keeps
\* windowResetAt, and no call, admitted or rejected, extends the current
\* window.
C36_CallsNeverExtendWindow ==
    /\ [][RejectionKeepsBucket]_vars
    /\ [][AdmissionInWindowAddsOne]_vars
    /\ [][WindowNotExtended]_vars

\* The window opened at 0; calls were admitted up to 59999 ms later and the
\* last one is refused: the window still ends at 60000
C36_Witness ==
    /\ now = RATE_LIMIT_WINDOW_MS - 1
    /\ rateLimitStore["u1"] = Some(Bucket(RATE_LIMIT_MAX_CALLS, RATE_LIMIT_WINDOW_MS))
    /\ history.admits["u1"] = RATE_LIMIT_MAX_CALLS
    /\ api["a1"].pc = "done"
    /\ api["a1"].req.userId = "u1"
    /\ api["a1"].resp.statusCode = 429
    /\ api["a1"].resp.retryAfter = 1

\* A call changes no bucket but the caller's
OthersUntouched ==
    \A i \in ApiSlots : \A v \in UserIds :
        (api'[i] # api[i] /\ v # Caller(i)) => rateLimitStore'[v] = rateLimitStore[v]

\* A call is refused exactly when the caller's own bucket is full and open,
\* and starts a new window exactly when the caller has no open window
DecidedByOwnBucket ==
    \A i \in ApiSlots :
        ReachesLimiter(i) =>
            LET own == rateLimitStore[Caller(i)]
            IN  /\ Rejected(i) <=> (WindowOpen(Caller(i)) /\ Get(own).count >= RATE_LIMIT_MAX_CALLS)
                /\ rateLimitStore'[Caller(i)] = Some(Bucket(1, now + RATE_LIMIT_WINDOW_MS))
                   <=> ~WindowOpen(Caller(i))

\* C37: the buckets are independent per userId: a call by user u, admitted or
\* rejected, reads and changes only u's bucket, so the calls of one user never
\* cause another user's call to be rejected or another user's window to reset.
C37_BucketsIndependent ==
    /\ [][OthersUntouched]_vars
    /\ [][DecidedByOwnBucket]_vars

\* u1 has used up its window; u2, who opened a window of its own 1 ms later,
\* is admitted with its second call
C37_Witness ==
    /\ rateLimitStore["u1"] = Some(Bucket(RATE_LIMIT_MAX_CALLS, RATE_LIMIT_WINDOW_MS))
    /\ rateLimitStore["u2"] = Some(Bucket(2, RATE_LIMIT_WINDOW_MS + 1))
    /\ now < RATE_LIMIT_WINDOW_MS
    /\ api["a1"].pc = "scan"
    /\ api["a1"].req.userId = "u2"
    /\ api["a1"].admitted

\* ------------------------------------------------------------------------
\* A query on a record that has not been processed (SpecMixed)
\* ------------------------------------------------------------------------
NotProcessed(item) ==
    /\ item.present
    /\ item.status \in {"UPLOADED", "PROCESSING_FAILED"}
    /\ item.processingResults = None

\* The fallback text for no processing results: 0 records, no quality score
UnprocessedText ==
    "Analysis completed with fallback method. Question: total amount?"
    \o " - Data contains 0 records with quality score of Unknown."
    \o " Consider reviewing the data for business opportunities and potential improvements."

\* The lookups of a query that find such a record, with the stores and the
\* bucket available, go on to the save with the text of empty results
LookupIgnoresStatus ==
    \A i \in ApiSlots :
        (api[i].pc = "scan" /\ api'[i].pc = "save" /\ NotProcessed(table[Get(api[i].req.dataId)]))
        => /\ api'[i].seenStatus \in {"UPLOADED", "PROCESSING_FAILED"}
           /\ api'[i].inferenceFailed => api'[i].insights = UnprocessedText
           /\ Len(api'[i].updatedInsights) = Len(table[Get(api[i].req.dataId)].insights) + 1

\* No answer of a query is a refusal because of the record's status: a query
\* that does not succeed got 429, 404 or 500, or 400 for its parameters
NoStatusRefusal ==
    \A i \in ApiSlots :
        Returned(api[i]) =>
            \/ IsSuccess(api[i].resp)
            \/ IsRateLimitError(api[i].resp)
            \/ IsNotFoundError(api[i].resp)
            \/ IsInternalError(api[i].resp)
            \/ /\ api[i].resp.statusCode = 400
               /\ api[i].resp.error # "No S3 key found for this file"
               /\ IsSome(ValidationError(api[i].req))

\* The save of such a query appends its entry, answers 200 and leaves the
\* status and the absent results as they are
SaveOnUnprocessed ==
    \A i \in ApiSlots :
        LET d == Get(api[i].req.dataId)
        IN  (QuerySucceeds(i) /\ NotProcessed(table[d]))
            => /\ IsSuccess(api'[i].resp)
               /\ Len(table'[d].insights) = Len(table[d].insights) + 1
               /\ table'[d].insights[Len(table'[d].insights)].response = api[i].insights
               /\ table'[d].status = table[d].status
               /\ table'[d].processingResults = None

\* C38: the on-demand path does not check the record's status: for an
\* existing record in status UPLOADED or PROCESSING_FAILED with no
\* processingResults an admitted query is not rejected but proceeds with
\* empty processing results (recordCount 0, no qualityScore), appends an entry
\* to insightHistory and returns success.
C38_QueryOnUnprocessedRecord ==
    /\ []NoStatusRefusal
    /\ [][LookupIgnoresStatus]_vars
    /\ [][SaveOnUnprocessed]_vars

\* The query found the record in status PROCESSING_FAILED, without results,
\* and has answered 200 with the text of empty results
C38_Witness ==
    /\ api["a1"].pc = "done"
    /\ api["a1"].resp.statusCode = 200
    /\ api["a1"].seenStatus = "PROCESSING_FAILED"
    /\ api["a1"].resp.insights = UnprocessedText
    /\ NotProcessed(table["d1"])
    /\ table["d1"].status = "PROCESSING_FAILED"
    /\ Len(table["d1"].insights) = 1
    /\ table["d1"].insights[1].response = UnprocessedText

\* ------------------------------------------------------------------------
\* A success after a recorded failure (Spec)
\* ------------------------------------------------------------------------
\* This step is the successful update of process invocation i
ProcessSuccessStep(i) == proc[i].pc = "update" /\ proc'[i].pc \in {"emit", "done"}

\* This step is the successful update of insights invocation i
InsightsSuccessStep(i) == ins[i].pc = "update" /\ ins'[i].pc = "done"

ProcessSuccessWrites(i) ==
    LET d == proc[i].ev.dataId
    IN  /\ table'[d].status = "PROCESSED"
        /\ table'[d].processingResults = Some(proc[i].results)
        /\ table'[d].processingError = table[d].processingError
        /\ SameExcept(table[d], table'[d], {"status", "processedAt", "processingResults"})

InsightsSuccessWrites(i) ==
    LET d == ins[i].ev.dataId
    IN  /\ table'[d].status = "INSIGHTS_GENERATED"
        /\ table'[d].aiInsights = Some(ins[i].insights)
        /\ table'[d].insightsError = table[d].insightsError
        /\ SameExcept(table[d], table'[d], {"status", "insightsGeneratedAt", "aiInsights"})

\* An error message on a record is the one a catch block wrote, until a
\* catch block writes another
ErrorStays ==
    \A d \in DataIds :
        /\ (table'[d].processingError # table[d].processingError)
           => (table'[d].status = "PROCESSING_FAILED" /\ table'[d].processingError # None)
        /\ (table'[d].insightsError # table[d].insightsError) => table'[d].insightsError # None

\* C39: a successful stage does not clear an earlier recorded error: the
\* success update of the process handler leaves processingError unchanged and
\* the success update of the insights event path leaves insightsError
\* unchanged, so after a failed attempt and a successful retry the record has
\* status PROCESSED or INSIGHTS_GENERATED together with the stale message.
C39_SuccessKeepsEarlierError ==
    /\ [][\A i \in ProcSlots : ProcessSuccessStep(i) => ProcessSuccessWrites(i)]_vars
    /\ [][\A i \in InsSlots : InsightsSuccessStep(i) => InsightsSuccessWrites(i)]_vars
    /\ [][ErrorStays]_vars

\* Both stages failed once and succeeded on the retry: the record is at
\* INSIGHTS_GENERATED with both messages; the insights handler ran in i1 only
\* and its last invocation returned
C39_Witness ==
    /\ Generated("d1")
    /\ table["d1"].processingError # None
    /\ table["d1"].insightsError # None
    /\ table["d1"].aiInsights # None
    /\ ins["i1"].pc = "done"
    /\ ins["i1"].outcome = "returned"
    /\ ins["i2"].pc = "idle"
    /\ \A i \in ProcSlots : proc[i].pc = "done" => proc[i].outcome = "returned"

====
